---- MODULE Spec2Model ----
(***************************************************************************)
(* Weight-determination pipeline of elasticsearch-dynamic-search:          *)
(* WeightCombiner, QueryAnalyzer, ContextualWeighter and QueryEnhancer.    *)
(* JavaScript numbers are modelled as exact rationals [n, d] in lowest     *)
(* terms; strings as sequences of one-character strings.                   *)
(***************************************************************************)
EXTENDS Integers, Sequences, FiniteSets, TLC

\* ------------------------------------------------------------------------
\* Numbers
\* ------------------------------------------------------------------------
Abs(x) == IF x < 0 THEN 0 - x ELSE x

RECURSIVE GCD(_, _)
GCD(a, b) == IF b = 0 THEN a ELSE GCD(b, a % b)

R(n, d) ==
  LET g == GCD(Abs(n), d)
  IN  [n |-> IF n < 0 THEN 0 - (Abs(n) \div g) ELSE n \div g, d |-> d \div g]

Zero == R(0, 1)
One == R(1, 1)
RAdd(a, b) == R(a.n * b.d + b.n * a.d, a.d * b.d)
RSub(a, b) == R(a.n * b.d - b.n * a.d, a.d * b.d)
RMul(a, b) == R(a.n * b.n, a.d * b.d)
RDiv(a, b) == IF b.n < 0 THEN R(0 - (a.n * b.d), a.d * (0 - b.n)) ELSE R(a.n * b.d, a.d * b.n)
RLe(a, b) == a.n * b.d <= b.n * a.d
RLt(a, b) == a.n * b.d < b.n * a.d
RMax(a, b) == IF RLt(a, b) THEN b ELSE a
RMin(a, b) == IF RLt(b, a) THEN b ELSE a
\* Math.round: nearest integer, halves towards +Infinity
Round(a) == (2 * a.n + a.d) \div (2 * a.d)
Pct(a) == Round(RMul(a, R(100, 1)))

\* ------------------------------------------------------------------------
\* Strings (JavaScript String methods used by the library)
\* ------------------------------------------------------------------------
UpperChars == "ABCDEFGHIJKLMNOPQRSTUVWXYZ"
LowerChars == "abcdefghijklmnopqrstuvwxyz"
CharAt(s, i) == SubSeq(s, i, i)
UpperSet == { CharAt(UpperChars, i) : i \in 1..26 }
LowerSet == { CharAt(LowerChars, i) : i \in 1..26 }
LowerOf == [c \in UpperSet |-> CharAt(LowerChars, CHOOSE i \in 1..26 : CharAt(UpperChars, i) = c)]
\* The white space of the queries: \s of a regular expression
SpaceSet == { " " }

\* String.prototype.toLowerCase
RECURSIVE ToLowerCase(_)
ToLowerCase(s) ==
  IF Len(s) = 0 THEN ""
  ELSE (IF CharAt(s, 1) \in UpperSet THEN LowerOf[CharAt(s, 1)] ELSE CharAt(s, 1))
       \o ToLowerCase(SubSeq(s, 2, Len(s)))

\* String.prototype.includes
Includes(s, p) ==
  \E i \in 0..(Len(s) - Len(p)) : SubSeq(s, i + 1, i + Len(p)) = p

\* JavaScript values that may be passed where a query string is expected
Undefined == [t |-> "undefined", v |-> ""]
Null == [t |-> "null", v |-> ""]
NumberValue == [t |-> "number", v |-> "42"]
Str(s) == [t |-> "string", v |-> s]
\* !query || typeof query !== 'string'
IsInvalidQuery(query) == query.t # "string" \/ Len(query.v) = 0

\* ------------------------------------------------------------------------
\* WeightCombiner
\* ------------------------------------------------------------------------
DefaultOptions ==
  [ analysisWeight |-> R(2, 5),
    contextualWeight |-> R(3, 5),
    regionalBias |-> R(3, 25),
    longQueryBoost |-> R(3, 10),
    mediumQueryBoost |-> R(1, 5),
    knowledgeQueryBoost |-> R(1, 4),
    properNounLexicalWeight |-> R(3, 4),
    properNounSemanticWeight |-> R(1, 4),
    minWeight |-> R(1, 10),
    maxWeight |-> R(9, 10) ]

DefaultKnowledgePatterns ==
  << "explain", "understand", "learn", "concept", "meaning", "definition",
     "guide", "tutorial", "how does", "why does", "what is", "how to",
     "overview", "introduction", "basics", "fundamentals" >>

NoRegion == "null"

\* Mutant of _clamp: the lower bound is forgotten
Clamp_NoLowerBound(opts, value) == RMin(opts.maxWeight, value)

\* _clamp
Clamp(opts, value) == RMax(opts.minWeight, RMin(opts.maxWeight, value))

\* Mutant of _isShortProperNounQuery: single-word queries only
IsShortProperNounQuery_OneWord(queryEnhancement) ==
  queryEnhancement.queryStats.wordCount <= 1 /\ queryEnhancement.properNouns.hasProperNouns

\* _isShortProperNounQuery
IsShortProperNounQuery(queryEnhancement) ==
  queryEnhancement.queryStats.wordCount <= 2 /\ queryEnhancement.properNouns.hasProperNouns

\* Mutant of _detectKnowledgeQuery: the query is not lower-cased
DetectKnowledgeQuery_CaseSensitive(patterns, query) ==
  IF IsInvalidQuery(query) THEN FALSE
  ELSE \E i \in 1..Len(patterns) : Includes(query.v, patterns[i])

\* _detectKnowledgeQuery
DetectKnowledgeQuery(patterns, query) ==
  IF IsInvalidQuery(query) THEN FALSE
  ELSE LET queryLower == ToLowerCase(query.v)
       IN  \E i \in 1..Len(patterns) : Includes(queryLower, patterns[i])

\* Mutant of _applyRegionalAdjustment: the semantic weight is neither capped
\* nor are the two weights normalised
ApplyRegionalAdjustment_NoNormalise(opts, lexicalWeight, semanticWeight) ==
  [lexical |-> RMax(opts.minWeight, RSub(lexicalWeight, opts.regionalBias)),
   semantic |-> RAdd(semanticWeight, opts.regionalBias)]

\* Mutant of _applyRegionalAdjustment: the bias is applied the wrong way round
ApplyRegionalAdjustment_WrongSign(opts, lexicalWeight, semanticWeight) ==
  LET adjustedLexicalWeight == RMin(opts.maxWeight, RAdd(lexicalWeight, opts.regionalBias))
      adjustedSemanticWeight == RMax(opts.minWeight, RSub(semanticWeight, opts.regionalBias))
      total == RAdd(adjustedLexicalWeight, adjustedSemanticWeight)
  IN  [lexical |-> RDiv(adjustedLexicalWeight, total),
       semantic |-> RDiv(adjustedSemanticWeight, total)]

\* _applyRegionalAdjustment
ApplyRegionalAdjustment(opts, lexicalWeight, semanticWeight) ==
  LET adjustedLexicalWeight == RMax(opts.minWeight, RSub(lexicalWeight, opts.regionalBias))
      adjustedSemanticWeight == RMin(opts.maxWeight, RAdd(semanticWeight, opts.regionalBias))
      total == RAdd(adjustedLexicalWeight, adjustedSemanticWeight)
  IN  [lexical |-> RDiv(adjustedLexicalWeight, total),
       semantic |-> RDiv(adjustedSemanticWeight, total)]

\* _calculateConfidence
CalculateConfidence(queryAnalysis, contextualWeights, queryEnhancement) ==
  LET c0 == RDiv(RAdd(queryAnalysis.confidence, contextualWeights.confidence), R(2, 1))
      c1 == IF queryEnhancement.properNouns.hasProperNouns
            THEN RMax(c0, queryEnhancement.properNouns.confidence) ELSE c0
  IN  IF queryEnhancement.detectedRegion # NoRegion
      THEN RMin(One, RAdd(c1, R(1, 10))) ELSE c1

\* A strategy selection that lacks the fallback to 'balanced_hybrid'
DetermineStrategy_NoFallback(queryAnalysis, queryEnhancement) ==
  IF IsShortProperNounQuery(queryEnhancement) THEN "short_proper_noun_lexical"
  ELSE IF queryEnhancement.detectedRegion # NoRegion THEN "regional_semantic_enhanced"
  ELSE queryAnalysis.strategy

\* _determineStrategy
DetermineStrategy(queryAnalysis, queryEnhancement) ==
  IF IsShortProperNounQuery(queryEnhancement) THEN "short_proper_noun_lexical"
  ELSE IF queryEnhancement.detectedRegion # NoRegion THEN "regional_semantic_enhanced"
  ELSE IF queryAnalysis.strategy # "" THEN queryAnalysis.strategy
  ELSE "balanced_hybrid"

\* One entry of a reasoning list: the text of the message (k), the numbers
\* interpolated into it (n), the region code (r) and the proper nouns (p).
Entry(k, n, r, p) == [k |-> k, n |-> n, r |-> r, p |-> p]

\* A reasoning entry that is a fixed text
Text(k) == Entry(k, <<>>, "", <<>>)
\* A reasoning property that holds an array, and one that is undefined
Reasoning(v) == [def |-> TRUE, v |-> v]
NoReasoning == [def |-> FALSE, v |-> <<>>]

\* Mutant of the reasoning array: it is the feature decision's own array
ReasoningRef_Aliased == "qa"

\* The array that `const reasoning = []` creates: an object of its own,
\* distinct from the reasoning arrays of the two input objects.
ReasoningRef == "local"

\* The three arrays a call can reach: the inputs' reasoning lists and its own
NewMem(queryAnalysis, contextualWeights) ==
  [qa |-> queryAnalysis.reasoning.v, cw |-> contextualWeights.reasoning.v, local |-> <<>>]

\* array.push(...elems)
Push(mem, ref, elems) == [mem EXCEPT ![ref] = @ \o elems]

\* A copy of the component reasoning that takes the contextual entries first
PushComponentReasoning_ContextualFirst(mem, queryAnalysis, contextualWeights) ==
  LET m1 == Push(mem, ReasoningRef, IF contextualWeights.reasoning.def THEN mem.cw ELSE <<>>)
  IN  Push(m1, ReasoningRef, IF queryAnalysis.reasoning.def THEN m1.qa ELSE <<>>)

\* reasoning.push(...(queryAnalysis.reasoning || []));
\* reasoning.push(...(contextualWeights.reasoning || []));
PushComponentReasoning(mem, queryAnalysis, contextualWeights) ==
  LET m1 == Push(mem, ReasoningRef, IF queryAnalysis.reasoning.def THEN mem.qa ELSE <<>>)
  IN  Push(m1, ReasoningRef, IF contextualWeights.reasoning.def THEN m1.cw ELSE <<>>)

\* _handleProperNounQuery
HandleProperNounQuery(opts, mem, queryAnalysis, contextualWeights, queryEnhancement) ==
  LET m2 == PushComponentReasoning(mem, queryAnalysis, contextualWeights)
      wordCount == queryEnhancement.queryStats.wordCount
      m3 == Push(m2, ReasoningRef,
                 << Entry("Short query with proper nouns detected",
                          << wordCount, Pct(RSub(opts.properNounLexicalWeight, R(1, 2))) >>,
                          "", queryEnhancement.properNouns.properNouns) >>)
      hasRegion == queryEnhancement.detectedRegion # NoRegion
      adj == ApplyRegionalAdjustment(opts, opts.properNounLexicalWeight, opts.properNounSemanticWeight)
      m4 == IF hasRegion
            THEN Push(m3, ReasoningRef,
                      << Entry("Regional query detected", << Pct(opts.regionalBias) >>,
                               queryEnhancement.detectedRegion, <<>>) >>)
            ELSE m3
  IN  [ decision |->
          [ lexicalWeight |-> IF hasRegion THEN adj.lexical ELSE opts.properNounLexicalWeight,
            semanticWeight |-> IF hasRegion THEN adj.semantic ELSE opts.properNounSemanticWeight,
            confidence |-> R(95, 100),
            strategy |-> "short_proper_noun_lexical",
            reasoning |-> m4[ReasoningRef],
            properNouns |-> [present |-> TRUE, list |-> queryEnhancement.properNouns.properNouns] ],
        mem |-> m4,
        locals |->
          [ path |-> "override", semanticBoost |-> Zero, isKnowledgeQuery |-> FALSE,
            baseLexical |-> opts.properNounLexicalWeight,
            preLexical |-> opts.properNounLexicalWeight,
            preSemantic |-> opts.properNounSemanticWeight ] ]

\* combineWeights, lines 69-86: the boost accumulator
LengthBoost(opts, wordCount) ==
  IF wordCount >= 4 THEN opts.longQueryBoost
  ELSE IF wordCount >= 2 THEN opts.mediumQueryBoost
  ELSE Zero

\* Mutant of the boost step: the boost is subtracted from the lexical weight
\* instead of scaling it
ApplySemanticBoost_Subtract(opts, lexicalWeight, semanticWeight, semanticBoost) ==
  IF RLt(Zero, semanticBoost)
  THEN LET l == RMax(opts.minWeight, RSub(lexicalWeight, semanticBoost))
           s == RMin(opts.maxWeight, RAdd(semanticWeight, semanticBoost))
           total == RAdd(l, s)
       IN  [lexical |-> RDiv(l, total), semantic |-> RDiv(s, total)]
  ELSE [lexical |-> lexicalWeight, semantic |-> semanticWeight]

\* combineWeights, lines 88-100: apply the boost, clamp, normalise
ApplySemanticBoost(opts, lexicalWeight, semanticWeight, semanticBoost) ==
  IF RLt(Zero, semanticBoost)
  THEN LET adjustedLexicalWeight == RMul(lexicalWeight, RSub(One, semanticBoost))
           adjustedSemanticWeight == RAdd(semanticWeight, RMul(lexicalWeight, semanticBoost))
           l == RMax(opts.minWeight, adjustedLexicalWeight)
           s == RMin(opts.maxWeight, adjustedSemanticWeight)
           total == RAdd(l, s)
       IN  [lexical |-> RDiv(l, total), semantic |-> RDiv(s, total)]
  ELSE [lexical |-> lexicalWeight, semantic |-> semanticWeight]

\* combineWeights
CombineWeights(opts, patterns, queryAnalysis, contextualWeights, queryEnhancement, query) ==
  LET m0 == NewMem(queryAnalysis, contextualWeights)
  IN
  IF IsShortProperNounQuery(queryEnhancement)
  THEN HandleProperNounQuery(opts, m0, queryAnalysis, contextualWeights, queryEnhancement)
  ELSE
  LET combinedLexical == RAdd(RMul(queryAnalysis.lexicalWeight, opts.analysisWeight),
                              RMul(contextualWeights.lexicalWeight, opts.contextualWeight))
      baseLexical == Clamp(opts, combinedLexical)
      baseSemantic == RSub(One, baseLexical)
      m2 == PushComponentReasoning(m0, queryAnalysis, contextualWeights)
      wordCount == queryEnhancement.queryStats.wordCount
      lengthBoost == LengthBoost(opts, wordCount)
      m3 == IF wordCount >= 4
            THEN Push(m2, ReasoningRef, << Entry("Long query", << wordCount, Pct(lengthBoost) >>, "", <<>>) >>)
            ELSE IF wordCount >= 2
            THEN Push(m2, ReasoningRef, << Entry("Medium query", << wordCount, Pct(lengthBoost) >>, "", <<>>) >>)
            ELSE m2
      isKnowledgeQuery == DetectKnowledgeQuery(patterns, query)
      semanticBoost == IF isKnowledgeQuery THEN RAdd(lengthBoost, opts.knowledgeQueryBoost)
                       ELSE lengthBoost
      m4 == IF isKnowledgeQuery
            THEN Push(m3, ReasoningRef,
                      << Entry("Knowledge-seeking query detected",
                               << Pct(opts.knowledgeQueryBoost) >>, "", <<>>) >>)
            ELSE m3
      boosted == ApplySemanticBoost(opts, baseLexical, baseSemantic, semanticBoost)
      hasRegion == queryEnhancement.detectedRegion # NoRegion
      final == IF hasRegion THEN ApplyRegionalAdjustment(opts, boosted.lexical, boosted.semantic)
               ELSE boosted
      m5 == IF hasRegion
            THEN Push(m4, ReasoningRef,
                      << Entry("Regional query detected", << Pct(opts.regionalBias) >>,
                               queryEnhancement.detectedRegion, <<>>) >>)
            ELSE m4
  IN  [ decision |->
          [ lexicalWeight |-> final.lexical,
            semanticWeight |-> final.semantic,
            confidence |-> CalculateConfidence(queryAnalysis, contextualWeights, queryEnhancement),
            strategy |-> DetermineStrategy(queryAnalysis, queryEnhancement),
            reasoning |-> m5[ReasoningRef],
            properNouns |->
              IF queryEnhancement.properNouns.hasProperNouns
              THEN [present |-> TRUE, list |-> queryEnhancement.properNouns.properNouns]
              ELSE [present |-> FALSE, list |-> <<>>] ],
        mem |-> m5,
        locals |->
          [ path |-> "normal", semanticBoost |-> semanticBoost,
            isKnowledgeQuery |-> isKnowledgeQuery,
            baseLexical |-> baseLexical,
            preLexical |-> boosted.lexical,
            preSemantic |-> boosted.semantic ] ]

\* ------------------------------------------------------------------------
\* QueryAnalyzer
\* ------------------------------------------------------------------------
\* \d, [A-Za-z0-9], \w and ["'] of a regular expression
DigitSet == { "0", "1", "2", "3", "4", "5", "6", "7", "8", "9" }
AlnumSet == UpperSet \cup LowerSet \cup DigitSet
WordSet == AlnumSet \cup { "_" }
QuoteSet == { "\"", "'" }

\* Length of the longest prefix of s whose characters are all in S (member)
\* or all outside S (~member): a greedy repetition of a character class
PrefixLen(s, S, member) ==
  CHOOSE k \in 0..Len(s) :
    /\ \A i \in 1..k : (CharAt(s, i) \in S) = member
    /\ (k = Len(s) \/ (CharAt(s, k + 1) \in S) # member)

\* s.split(/\s+/).filter(w => w.length > 0)
RECURSIVE SplitWords(_)
SplitWords(s) ==
  IF Len(s) = 0 THEN <<>>
  ELSE IF CharAt(s, 1) \in SpaceSet THEN SplitWords(SubSeq(s, 2, Len(s)))
  ELSE LET k == PrefixLen(s, SpaceSet, FALSE)
       IN  << SubSeq(s, 1, k) >> \o SplitWords(SubSeq(s, k + 1, Len(s)))

\* The maximal runs of word characters of s, each with the separator that
\* precedes it: the places between which \b holds
RECURSIVE WordRuns(_)
WordRuns(s) ==
  LET g == PrefixLen(s, WordSet, FALSE)
      rest == SubSeq(s, g + 1, Len(s))
      k == PrefixLen(rest, WordSet, TRUE)
  IN  IF k = 0 THEN <<>>
      ELSE << [sep |-> SubSeq(s, 1, g), w |-> SubSeq(rest, 1, k)] >>
           \o WordRuns(SubSeq(rest, k + 1, Len(rest)))

AllChars(s, S) == \A i \in 1..Len(s) : CharAt(s, i) \in S

\* [A-Z][a-z]+ over a whole run
IsCapitalisedRun(w) ==
  Len(w) >= 2 /\ CharAt(w, 1) \in UpperSet /\ AllChars(SubSeq(w, 2, Len(w)), LowerSet)

\* query.match(/\b[A-Z][a-z]+(?:\s+[A-Z][a-z]+)*\b/g): one match per maximal
\* chain of capitalised runs separated by white space only
CapitalisedMatches(s) ==
  LET runs == WordRuns(s)
  IN  Cardinality({ k \in 1..Len(runs) :
        /\ IsCapitalisedRun(runs[k].w)
        /\ ~( /\ k > 1
              /\ IsCapitalisedRun(runs[k - 1].w)
              /\ Len(runs[k].sep) > 0
              /\ AllChars(runs[k].sep, SpaceSet) ) })

\* query.match(/\b\d{4}\b/g)
YearMatches(s) ==
  LET runs == WordRuns(s)
  IN  Cardinality({ k \in 1..Len(runs) :
        Len(runs[k].w) = 4 /\ AllChars(runs[k].w, DigitSet) })

\* query.match(/\b[A-Z]{2,}\b/g)
AcronymMatches(s) ==
  LET runs == WordRuns(s)
  IN  Cardinality({ k \in 1..Len(runs) :
        Len(runs[k].w) >= 2 /\ AllChars(runs[k].w, UpperSet) })

\* The five entityPatterns; the e-mail and URL patterns need an '@' or a
\* '://', which no query of the input sets contains
EntityPatternMatches(s) == CapitalisedMatches(s) + YearMatches(s) + AcronymMatches(s)

\* query.match(/["']([^"']+)["']/g)
RECURSIVE QuotedPhrases(_)
QuotedPhrases(s) ==
  IF Len(s) = 0 THEN 0
  ELSE IF CharAt(s, 1) \in QuoteSet
  THEN LET rest == SubSeq(s, 2, Len(s))
           k == PrefixLen(rest, QuoteSet, FALSE)
       IN  IF k >= 1 /\ k < Len(rest)
           THEN 1 + QuotedPhrases(SubSeq(rest, k + 2, Len(rest)))
           ELSE QuotedPhrases(rest)
  ELSE QuotedPhrases(SubSeq(s, 2, Len(s)))

DefaultAnalyzerOptions ==
  [maxQueryLength |-> 20, entityThreshold |-> R(3, 10), conceptualThreshold |-> R(1, 5)]

RECURSIVE SumLen(_)
SumLen(words) == IF Len(words) = 0 THEN 0 ELSE Len(Head(words)) + SumLen(Tail(words))

Max2(a, b) == IF a > b THEN a ELSE b

\* A number that may be NaN (0 / 0)
Num(v) == [nan |-> FALSE, v |-> v]
NaN == [nan |-> TRUE, v |-> Zero]
Quotient(a, b) == IF b = 0 THEN NaN ELSE Num(R(a, b))

\* _calculateComplexity
CalculateComplexity(words, nlp) ==
  RAdd(RAdd(IF Len(words) > 10 THEN R(3, 10) ELSE Zero,
            IF nlp.entities > 2 THEN R(1, 5) ELSE Zero),
       RAdd(IF nlp.verbs > 1 THEN R(1, 5) ELSE Zero,
            IF nlp.nouns > 3 THEN R(3, 10) ELSE Zero))

\* _performAnalysis; nlp holds the sizes of the arrays that the compromise
\* library returns for the query (topics, verbs, nouns)
PerformAnalysis(query, nlp) ==
  LET words == SplitWords(ToLowerCase(query))
      wordCount == Len(words)
      entityCount == nlp.entities + EntityPatternMatches(query)
      conceptualCount == Cardinality({ i \in 1..wordCount : words[i] \in
          { "similar", "like", "related", "about", "regarding", "concept", "idea", "meaning",
            "definition", "explain", "understand", "learn", "discover", "find", "search" } })
      exactMatchCount == Cardinality({ i \in 1..wordCount : words[i] \in
          { "exactly", "precise", "specific", "particular", "certain" } })
  IN  [ wordCount |-> wordCount,
        entityCount |-> entityCount,
        conceptualCount |-> conceptualCount,
        exactMatchCount |-> exactMatchCount,
        quotedPhrases |-> QuotedPhrases(query),
        avgWordLength |-> Quotient(SumLen(words), wordCount),
        uniqueWordRatio |-> Quotient(Cardinality({ words[i] : i \in 1..wordCount }), wordCount),
        entityRatio |-> R(entityCount, Max2(wordCount, 1)),
        conceptualRatio |-> R(conceptualCount, Max2(wordCount, 1)),
        exactMatchRatio |-> R(exactMatchCount, Max2(wordCount, 1)),
        hasVerbs |-> nlp.verbs > 0,
        hasNouns |-> nlp.nouns > 0,
        complexity |-> CalculateComplexity(words, nlp) ]

\* A strategy selection that lacks the entity_focused branch
SelectStrategy_NoEntityBranch(opts, analysis) ==
  IF analysis.quotedPhrases > 0 \/ RLt(R(1, 10), analysis.exactMatchRatio)
  THEN [lexical |-> R(4, 5), strategy |-> "exact_match", confidence |-> R(9, 10),
        reasoning |-> << Text("Exact match indicators - extra 30% lexical boost") >>]
  ELSE IF RLt(opts.conceptualThreshold, analysis.conceptualRatio)
  THEN [lexical |-> R(3, 10), strategy |-> "conceptual", confidence |-> R(4, 5),
        reasoning |-> << Text("Conceptual query - extra 20% semantic boost") >>]
  ELSE IF analysis.wordCount <= 2
  THEN [lexical |-> R(13, 20), strategy |-> "short_query", confidence |-> R(7, 10),
        reasoning |-> << Text("Short queries - extra 15% lexical boost") >>]
  ELSE IF analysis.wordCount >= 8
  THEN [lexical |-> RAdd(R(2, 5), RMul(analysis.entityRatio, R(3, 10))),
        strategy |-> "descriptive", confidence |-> R(3, 4),
        reasoning |-> << Text("Long descriptive queries - balanced approach with entity adjustment") >>]
  ELSE [lexical |-> R(1, 2), strategy |-> "balanced", confidence |-> R(3, 5), reasoning |-> <<>>]

\* _calculateWeights, lines 105-135: first matching strategy
SelectStrategy(opts, analysis) ==
  IF analysis.quotedPhrases > 0 \/ RLt(R(1, 10), analysis.exactMatchRatio)
  THEN [lexical |-> R(4, 5), strategy |-> "exact_match", confidence |-> R(9, 10),
        reasoning |-> << Text("Exact match indicators - extra 30% lexical boost") >>]
  ELSE IF RLt(opts.entityThreshold, analysis.entityRatio)
  THEN [lexical |-> R(3, 4), strategy |-> "entity_focused", confidence |-> R(4, 5),
        reasoning |-> << Text("High entity content - extra 25% lexical boost") >>]
  ELSE IF RLt(opts.conceptualThreshold, analysis.conceptualRatio)
  THEN [lexical |-> R(3, 10), strategy |-> "conceptual", confidence |-> R(4, 5),
        reasoning |-> << Text("Conceptual query - extra 20% semantic boost") >>]
  ELSE IF analysis.wordCount <= 2
  THEN [lexical |-> R(13, 20), strategy |-> "short_query", confidence |-> R(7, 10),
        reasoning |-> << Text("Short queries - extra 15% lexical boost") >>]
  ELSE IF analysis.wordCount >= 8
  THEN [lexical |-> RAdd(R(2, 5), RMul(analysis.entityRatio, R(3, 10))),
        strategy |-> "descriptive", confidence |-> R(3, 4),
        reasoning |-> << Text("Long descriptive queries - balanced approach with entity adjustment") >>]
  ELSE [lexical |-> R(1, 2), strategy |-> "balanced", confidence |-> R(3, 5), reasoning |-> <<>>]

\* The additive adjustments of the lexical weight (_calculateWeights and
\* calculateContextualWeights): those whose condition holds are applied in the
\* order of the code, each with its reasoning line
RECURSIVE ApplyAdjustments(_, _)
ApplyAdjustments(acc, adjustments) ==
  IF Len(adjustments) = 0 THEN acc
  ELSE LET a == Head(adjustments)
       IN  ApplyAdjustments(
             IF a.on
             THEN [lexical |-> RAdd(acc.lexical, a.delta),
                   reasoning |-> acc.reasoning \o << Text(a.text) >>]
             ELSE acc,
             Tail(adjustments))

\* _calculateWeights
CalculateWeights(opts, analysis, context) ==
  LET base == SelectStrategy(opts, analysis)
      adjusted == ApplyAdjustments([lexical |-> base.lexical, reasoning |-> base.reasoning], <<
        [on |-> context.userIntent = "factual", delta |-> R(1, 10),
         text |-> "Factual intent - extra 10% lexical boost"],
        [on |-> context.userIntent # "factual" /\ context.userIntent = "exploratory",
         delta |-> R(-15, 100), text |-> "Exploratory intent - extra 15% semantic boost"],
        [on |-> context.domain = "technical", delta |-> R(5, 100),
         text |-> "Technical domain - extra 5% lexical boost"] >>)
  IN  [lexical |-> adjusted.lexical, semantic |-> RSub(One, adjusted.lexical),
       confidence |-> base.confidence, strategy |-> base.strategy,
       reasoning |-> adjusted.reasoning]

\* Math.max(0.1, Math.min(0.9, w))
AnalyzerClamp(w) == RMax(R(1, 10), RMin(R(9, 10), w))

\* Mutant of the analyzer's input check: only the type is checked
AnalyzerRejects_TypeOnly(query) == query.t # "string"

\* if (!query || typeof query !== 'string') throw ...
AnalyzerRejects(query) == IsInvalidQuery(query)

NoAnalysisResult ==
  [lexicalWeight |-> Zero, semanticWeight |-> Zero, confidence |-> Zero,
   strategy |-> "", reasoning |-> <<>>, preLexical |-> Zero]

\* analyzeQuery, lines 40-47: the decision returned for the weights;
\* preLexical is weights.lexical, the lexical weight before the clamp
AnalysisDecision(weights) ==
  [ lexicalWeight |-> AnalyzerClamp(weights.lexical),
    semanticWeight |-> AnalyzerClamp(weights.semantic),
    confidence |-> weights.confidence,
    strategy |-> weights.strategy,
    reasoning |-> weights.reasoning,
    preLexical |-> weights.lexical ]

\* analyzeQuery: the outcome, the steps that ran and the decision
AnalyzeQuery(opts, query, context, nlp) ==
  IF AnalyzerRejects(query)
  THEN [outcome |-> "threw", steps |-> <<>>, result |-> NoAnalysisResult]
  ELSE [ outcome |-> "returned",
         steps |-> << "_performAnalysis", "_calculateWeights" >>,
         result |-> AnalysisDecision(CalculateWeights(opts, PerformAnalysis(query.v, nlp), context)) ]

\* ------------------------------------------------------------------------
\* ContextualWeighter
\* ------------------------------------------------------------------------
\* options.cacheTTL = 30 * 60 * 1000 milliseconds
CacheTTL == 1800000

\* The statistics substituted when the request fails (no timestamp field)
DefaultCorpusStats ==
  [avgDocLength |-> R(500, 1), termDiversity |-> Num(R(1, 2)), totalDocs |-> 1000,
   timestamp |-> -1]

\* getCorpusStatistics, lines 277-283: statistics from the aggregations of a
\* response (avg, td and total are the three aggregation values)
StatsFromAggregations(aggs, time) ==
  [avgDocLength |-> IF aggs.avg = 0 THEN R(500, 1) ELSE R(aggs.avg, 1),
   termDiversity |-> Num(R(aggs.td, Max2(aggs.total, 1))),
   totalDocs |-> aggs.total,
   timestamp |-> time]

NoCacheEntry == [present |-> FALSE, data |-> DefaultCorpusStats, timestamp |-> 0]

\* Mutant of the cache write: the entry holds the default statistics, not
\* the fetched ones
CacheEntry_Defaults(stats, time) ==
  [present |-> TRUE, data |-> DefaultCorpusStats, timestamp |-> time]

\* getCorpusStatistics, line 285: { data: stats, timestamp: Date.now() }
CacheEntry(stats, time) == [present |-> TRUE, data |-> stats, timestamp |-> time]

\* A cache lookup that never lets an entry expire
CacheHit_IgnoresTTL(cache, indexName, time) == cache[indexName].present

\* getCorpusStatistics, line 245: a cached entry younger than cacheTTL
CacheHit(cache, indexName, time) ==
  cache[indexName].present /\ time - cache[indexName].timestamp < CacheTTL

\* calculateQueryCorpusOverlap, line 298
RECURSIVE LongTerms(_)
LongTerms(words) ==
  IF Len(words) = 0 THEN <<>>
  ELSE (IF Len(Head(words)) > 2 THEN << Head(words) >> ELSE <<>>) \o LongTerms(Tail(words))

QueryTerms(query) == LongTerms(SplitWords(ToLowerCase(query)))

\* calculateQueryCorpusOverlap, lines 322-330: the terms of the bucket keys
CorpusTerms(buckets) ==
  UNION { LET terms == LongTerms(SplitWords(ToLowerCase(buckets[i])))
          IN  { terms[j] : j \in 1..Len(terms) } : i \in 1..Len(buckets) }

\* calculateQueryCorpusOverlap, lines 332-333
OverlapRatio(queryTerms, corpusTerms) ==
  R(Cardinality({ i \in 1..Len(queryTerms) : queryTerms[i] \in corpusTerms }), Len(queryTerms))

\* calculateQueryCorpusOverlap, lines 316-337: the overlap for a response
\* (buckets received, a response without aggregations, or a rejection)
OverlapFromResponse(queryTerms, response) ==
  IF response.kind = "ok" THEN OverlapRatio(queryTerms, CorpusTerms(response.buckets))
  ELSE IF response.kind = "noaggs" THEN OverlapRatio(queryTerms, {})
  ELSE R(1, 2)

IndicatorCount(queryLower, indicators) ==
  Cardinality({ ind \in indicators : Includes(queryLower, ind) })

\* inferUserIntent
InferUserIntent(query) ==
  LET queryLower == ToLowerCase(query)
      factualIndicators == { "what", "when", "where", "who", "how many", "define" }
      exploratoryIndicators == { "similar", "like", "related", "about", "explore", "discover" }
      navigationalIndicators == { "login", "homepage", "contact", "support", "download" }
      scores == [factual |-> RMul(R(3, 10), R(IndicatorCount(queryLower, factualIndicators), 1)),
                 exploratory |-> RMul(R(3, 10), R(IndicatorCount(queryLower, exploratoryIndicators), 1)),
                 navigational |-> RMul(R(2, 5), R(IndicatorCount(queryLower, navigationalIndicators), 1))]
      maxScore == RMax(scores.factual, RMax(scores.exploratory, scores.navigational))
      primaryIntent == IF scores.factual = maxScore THEN "factual"
                       ELSE IF scores.exploratory = maxScore THEN "exploratory"
                       ELSE "navigational"
  IN  [primary |-> primaryIntent, confidence |-> RMin(maxScore, R(9, 10)), scores |-> scores]

\* Mutant of the final clamp of calculateContextualWeights: no upper bound
ContextualClamp_NoUpperBound(w) == RMax(R(1, 10), w)

\* Math.max(0.1, Math.min(0.9, lexicalWeight))
ContextualClamp(w) == RMax(R(1, 10), RMin(R(9, 10), w))

\* calculateContextualWeights, lines 177-238: the signal computed from the
\* statistics, the overlap and the inferred intent
ContextualSignal(query, context, corpusStats, queryCorpusOverlap) ==
  LET userIntent == InferUserIntent(query)
      highOverlap == RLt(R(7, 10), queryCorpusOverlap)
      a5 == ApplyAdjustments([lexical |-> R(1, 2), reasoning |-> <<>>], <<
        [on |-> RLt(R(1000, 1), corpusStats.avgDocLength), delta |-> R(-1, 10),
         text |-> "Long documents favor semantic search"],
        [on |-> ~corpusStats.termDiversity.nan /\ RLt(R(4, 5), corpusStats.termDiversity.v),
         delta |-> R(-15, 100), text |-> "High term diversity favors semantic search"],
        [on |-> highOverlap, delta |-> R(1, 5),
         text |-> "High vocabulary overlap favors lexical search"],
        [on |-> ~highOverlap /\ RLt(queryCorpusOverlap, R(3, 10)), delta |-> R(-1, 5),
         text |-> "Low vocabulary overlap favors semantic search"],
        [on |-> userIntent.primary = "factual", delta |-> R(15, 100),
         text |-> "Factual queries benefit from lexical precision"],
        [on |-> userIntent.primary = "exploratory", delta |-> R(-1, 5),
         text |-> "Exploratory queries benefit from semantic breadth"],
        [on |-> userIntent.primary = "navigational", delta |-> R(1, 4),
         text |-> "Navigational queries require lexical precision"],
        [on |-> context.domain = "technical", delta |-> R(1, 10),
         text |-> "Technical domain benefits from exact term matching"],
        [on |-> context.domain # "technical" /\ context.domain = "creative", delta |-> R(-15, 100),
         text |-> "Creative domain benefits from conceptual search"] >>)
      c3 == IF highOverlap THEN R(7, 10) ELSE R(3, 5)
      lexicalWeight == ContextualClamp(a5.lexical)
  IN  [ lexicalWeight |-> lexicalWeight,
        semanticWeight |-> RSub(One, lexicalWeight),
        confidence |-> RMax(R(3, 10), RMin(R(95, 100), c3)),
        reasoning |-> a5.reasoning,
        corpusStats |-> corpusStats,
        queryCorpusOverlap |-> queryCorpusOverlap,
        userIntent |-> userIntent.primary,
        intentConfidence |-> userIntent.confidence,
        preLexical |-> a5.lexical ]

\* ------------------------------------------------------------------------
\* QueryEnhancer
\* ------------------------------------------------------------------------
DefaultEnhancerOptions == [enableRegionalDetection |-> TRUE, enableProperNounDetection |-> TRUE]

\* this.regionPatterns: for each country code, in the order of the countries
\* list, the code, the name, the native name and the special cases, without
\* duplicates; four countries of the list stand for all of them
RegionPatterns ==
  << [region |-> "DE", patterns |-> << "DE", "Germany", "Deutschland" >>],
     [region |-> "GB", patterns |-> << "GB", "United Kingdom", "UK", "Britain", "British",
                                       "England", "English" >>],
     [region |-> "IN", patterns |-> << "IN", "India" >>],
     [region |-> "US", patterns |-> << "US", "United States", "USA", "America", "American" >>] >>

\* this.englishWords: the words of the input queries that the word list holds
EnglishWords ==
  { "test", "query", "apple", "office", "sales", "training", "materials", "made", "in",
    "with", "multiple", "words", "how", "to", "what", "is", "policy", "server" }

\* new RegExp(`\\b${p}\\b`).test(s) for a pattern p that starts and ends
\* with a word character
MatchesWholeWord(s, p) ==
  \E i \in 0..(Len(s) - Len(p)) :
    /\ SubSeq(s, i + 1, i + Len(p)) = p
    /\ (i = 0 \/ CharAt(s, i) \notin WordSet)
    /\ (i + Len(p) = Len(s) \/ CharAt(s, i + Len(p) + 1) \notin WordSet)

\* detectRegion, lines 96-112: one pattern against the query
RegionPatternMatches(query, pattern) ==
  IF Len(pattern) = 2 /\ AllChars(pattern, UpperSet)
  THEN MatchesWholeWord(query, pattern)
  ELSE MatchesWholeWord(ToLowerCase(query), ToLowerCase(pattern))

\* detectRegion: the first region, in the order of the dictionary, one of
\* whose patterns matches
DetectRegion(query) ==
  LET hits == { k \in 1..Len(RegionPatterns) :
                  \E j \in 1..Len(RegionPatterns[k].patterns) :
                    RegionPatternMatches(query, RegionPatterns[k].patterns[j]) }
  IN  IF hits = {} THEN NoRegion
      ELSE RegionPatterns[CHOOSE k \in hits : \A m \in hits : k <= m].region

\* query.trim()
Trim(s) ==
  LET kept == { i \in 1..Len(s) : CharAt(s, i) \notin SpaceSet }
  IN  IF kept = {} THEN ""
      ELSE SubSeq(s, CHOOSE i \in kept : \A j \in kept : i <= j,
                     CHOOSE i \in kept : \A j \in kept : j <= i)

\* s.split(/\s+/) of a trimmed string: the empty string gives one empty word
SplitTrimmed(s) == IF Len(s) = 0 THEN << "" >> ELSE SplitWords(s)

\* word.replace(/[^\w]/g, '')
RECURSIVE StripNonWord(_)
StripNonWord(s) ==
  IF Len(s) = 0 THEN ""
  ELSE (IF CharAt(s, 1) \in WordSet THEN CharAt(s, 1) ELSE "") \o StripNonWord(SubSeq(s, 2, Len(s)))

\* _hasCapitalization: /^[A-Z]/
HasCapitalization(word) == Len(word) >= 1 /\ CharAt(word, 1) \in UpperSet
\* _hasProperCapitalization: /^[A-Z][a-z]+$/ and length > 1
HasProperCapitalization(word) == IsCapitalisedRun(word)
\* _isEnglishWord
IsEnglishWord(word) == ToLowerCase(word) \in EnglishWords

\* /^[A-Z]+(&[A-Z]+)*$/
RECURSIVE IsAmpersandAcronym(_)
IsAmpersandAcronym(word) ==
  LET k == PrefixLen(word, UpperSet, TRUE)
  IN  /\ k >= 1
      /\ \/ k = Len(word)
         \/ /\ CharAt(word, k + 1) = "&"
            /\ IsAmpersandAcronym(SubSeq(word, k + 2, Len(word)))

\* _isAcronym
IsAcronym(word) ==
  (Len(word) >= 2 /\ AllChars(word, UpperSet)) \/ IsAmpersandAcronym(word)

\* _isProductCode: /^[A-Za-z0-9]+[-_]?[A-Za-z0-9]+$/ with a letter and a digit
IsProductCode(word) ==
  /\ \E k \in 1..(Len(word) - 1) :
       /\ AllChars(SubSeq(word, 1, k), AlnumSet)
       /\ \/ AllChars(SubSeq(word, k + 1, Len(word)), AlnumSet)
          \/ /\ CharAt(word, k + 1) \in {"-", "_"}
             /\ k + 2 <= Len(word)
             /\ AllChars(SubSeq(word, k + 2, Len(word)), AlnumSet)
  /\ \E i \in 1..Len(word) : CharAt(word, i) \in UpperSet \cup LowerSet
  /\ \E i \in 1..Len(word) : CharAt(word, i) \in DigitSet

\* _isAllCaps: word === word.toUpperCase() && /[A-Z]/.test(word)
IsAllCaps(word) ==
  /\ \A i \in 1..Len(word) : CharAt(word, i) \notin LowerSet
  /\ \E i \in 1..Len(word) : CharAt(word, i) \in UpperSet

\* The fixed confidence of each kind of match of the compromise library
NlpConfidence(type) ==
  IF type = "Person" THEN R(95, 100)
  ELSE IF type = "Place" THEN R(9, 10)
  ELSE IF type = "Organization" THEN R(9, 10)
  ELSE IF type = "ProperNoun" THEN R(4, 5)
  ELSE R(85, 100)

NoProperNouns == [hasProperNouns |-> FALSE, properNouns |-> <<>>, confidence |-> Zero]

\* detectProperNouns, lines 136-199: the scoring of the single word; nlpType
\* is the kind of the first check of the compromise library whose match is
\* the whole query ("" when there is none)
DetectProperNounInWord(word, nlpType) ==
  LET cleanWord == StripNonWord(ToLowerCase(word))
      compromiseDetected == nlpType # ""
      manualConfidence ==
        RAdd(RAdd(RAdd(IF compromiseDetected THEN NlpConfidence(nlpType) ELSE Zero,
                       IF HasCapitalization(word) /\ ~IsEnglishWord(cleanWord) THEN R(7, 10) ELSE Zero),
                  RAdd(IF HasProperCapitalization(word)
                       THEN (IF IsEnglishWord(cleanWord) THEN R(1, 10) ELSE R(1, 2))
                       ELSE Zero,
                       IF IsAcronym(word) THEN R(3, 5) ELSE Zero)),
             RAdd(IF IsProductCode(word) THEN R(2, 5) ELSE Zero,
                  IF IsAllCaps(word) /\ Len(word) >= 2 THEN R(1, 2) ELSE Zero))
      finalConfidence == RMin(manualConfidence, One)
  IN  IF RLe(R(1, 5), finalConfidence) \/ compromiseDetected
      THEN [hasProperNouns |-> TRUE, properNouns |-> << word >>,
            confidence |-> RMin(finalConfidence, One)]
      ELSE NoProperNouns

\* A detection that looks at the first word of a query of any length
DetectProperNouns_AnyLength(query, nlpType) ==
  IF IsInvalidQuery(query) THEN NoProperNouns
  ELSE DetectProperNounInWord(SplitTrimmed(Trim(query.v))[1], nlpType)

\* detectProperNouns: only a query of exactly one word is looked at
DetectProperNouns(query, nlpType) ==
  IF IsInvalidQuery(query) THEN NoProperNouns
  ELSE
  LET words == SplitTrimmed(Trim(query.v))
  IN  IF Len(words) # 1 THEN NoProperNouns
      ELSE DetectProperNounInWord(words[1], nlpType)

\* _getQueryStats
GetQueryStats(query) ==
  LET words == SplitWords(Trim(query))
  IN  [wordCount |-> Len(words),
       characterCount |-> Len(query),
       avgWordLength |-> IF Len(words) > 0 THEN R(SumLen(words), Len(words)) ELSE Zero]

\* shouldAutoDisableRerank
ShouldAutoDisableRerank(query, nlpType) ==
  IF IsInvalidQuery(query) THEN FALSE
  ELSE GetQueryStats(query.v).wordCount = 1 /\ DetectProperNouns(query, nlpType).hasProperNouns

IncludesAny(s, terms) == \E i \in 1..Len(terms) : Includes(s, terms[i])

\* inferDomain
InferDomain(query) ==
  LET technicalTerms == << "api", "code", "database", "server", "configuration", "system" >>
      businessTerms == << "policy", "process", "training", "compliance", "procedure" >>
  IN  IF IsInvalidQuery(query) THEN "general"
      ELSE IF IncludesAny(ToLowerCase(query.v), technicalTerms) THEN "technical"
      ELSE IF IncludesAny(ToLowerCase(query.v), businessTerms) THEN "business"
      ELSE "general"

\* inferIntent
InferIntent(query) ==
  LET factualIndicators == << "what", "when", "where", "who", "how" >>
      exploratoryIndicators == << "similar", "like", "about", "related" >>
  IN  IF IsInvalidQuery(query) THEN "general"
      ELSE IF IncludesAny(ToLowerCase(query.v), factualIndicators) THEN "factual"
      ELSE IF IncludesAny(ToLowerCase(query.v), exploratoryIndicators) THEN "exploratory"
      ELSE "general"

\* _getEmptyEnhancement
GetEmptyEnhancement ==
  [ originalQuery |-> "", detectedRegion |-> NoRegion, properNouns |-> NoProperNouns,
    queryStats |-> [wordCount |-> 0, characterCount |-> 0, avgWordLength |-> Zero],
    shouldAutoDisableRerank |-> FALSE, domain |-> "general", intent |-> "general" ]

\* Mutant of the enhancer's input check: a value that is not a string passes
EnhancerRejects_FalsyOnly(query) == query \in {Undefined, Null} \/ query.v = ""

\* if (!query || typeof query !== 'string') return this._getEmptyEnhancement()
EnhancerRejects(query) == IsInvalidQuery(query)

\* enhanceQuery: the outcome, the steps that ran and the enhancement. A value
\* that passes the input check without being a string has no trim method,
\* so _getQueryStats throws a TypeError.
EnhanceQuery(opts, query, nlpType) ==
  IF EnhancerRejects(query)
  THEN [outcome |-> "returned", steps |-> <<>>, result |-> GetEmptyEnhancement]
  ELSE IF query.t # "string"
  THEN [outcome |-> "threw", steps |-> << "_getQueryStats" >>, result |-> GetEmptyEnhancement]
  ELSE
  [ outcome |-> "returned",
    steps |-> << "_getQueryStats" >>
              \o (IF opts.enableRegionalDetection THEN << "detectRegion" >> ELSE <<>>)
              \o (IF opts.enableProperNounDetection THEN << "detectProperNouns" >> ELSE <<>>)
              \o << "shouldAutoDisableRerank", "inferDomain", "inferIntent" >>,
    result |->
      [ originalQuery |-> query.v,
        detectedRegion |-> IF opts.enableRegionalDetection THEN DetectRegion(query.v) ELSE NoRegion,
        properNouns |-> IF opts.enableProperNounDetection
                        THEN DetectProperNouns(query, nlpType) ELSE NoProperNouns,
        queryStats |-> GetQueryStats(query.v),
        shouldAutoDisableRerank |-> ShouldAutoDisableRerank(query, nlpType),
        domain |-> InferDomain(query),
        intent |-> InferIntent(query) ] ]

\* ------------------------------------------------------------------------
\* State
\* ------------------------------------------------------------------------
VARIABLES
  options,            \* WeightCombiner.options
  knowledgePatterns,  \* WeightCombiner.knowledgePatterns
  wcArgs,             \* arguments of combineWeights, as the caller built them
  wcMem,              \* the inputs' reasoning arrays as they are now
  wcRet,              \* what the latest combineWeights call returned, and its locals
  wcCalls,            \* number of combineWeights calls made with wcArgs
  qaOptions,          \* QueryAnalyzer.options
  qaIn,               \* arguments of analyzeQuery and what the NLP library finds
  qaPc,               \* "off", "ready", "returned" or "threw"
  qaSteps,            \* the analysis steps that analyzeQuery ran
  qaOut,              \* the decision that analyzeQuery returned
  corpusCache,        \* ContextualWeighter.corpusCache, by index name
  now,                \* Date.now()
  cwCalls,            \* the calculateContextualWeights calls, by call number
  qeOptions,          \* QueryEnhancer.options
  qeIn,               \* argument of enhanceQuery and what the NLP library finds
  qePc,               \* "off", "ready", "returned" or "threw"
  qeSteps,            \* the steps that enhanceQuery ran
  qeOut,              \* the enhancement that enhanceQuery returned
  dseOptions,         \* DynamicSearchEngine.options
  dseStats,           \* DynamicSearchEngine.stats
  resultCache,        \* DynamicSearchEngine.resultCache: its entries in Map order
  activeSessions,     \* PerformanceMonitor.activeSessions: the search ids it holds
  dseCalls            \* the search and multisearch calls, by call number

wcVars == << options, knowledgePatterns, wcArgs, wcMem, wcRet, wcCalls >>
qaVars == << qaOptions, qaIn, qaPc, qaSteps, qaOut >>
cwVars == << corpusCache, now, cwCalls >>
qeVars == << qeOptions, qeIn, qePc, qeSteps, qeOut >>
dseVars == << dseOptions, dseStats, resultCache, activeSessions, dseCalls >>
vars == << wcVars, qaVars, cwVars, qeVars, dseVars >>

\* ------------------------------------------------------------------------
\* Bounds and input sets
\* ------------------------------------------------------------------------
MaxWordCount == 4
MaxCalls == 2

WeightGrid == { R(k, 5) : k \in 0..5 }

FeatureDecisions ==
  { [lexicalWeight |-> l, semanticWeight |-> RSub(One, l), confidence |-> f.confidence,
     strategy |-> f.strategy, reasoning |-> f.reasoning] :
    l \in WeightGrid, f \in
      { [strategy |-> "exact_match", confidence |-> R(9, 10),
         reasoning |-> Reasoning(<< Text("Exact match indicators - extra 30% lexical boost") >>)],
        [strategy |-> "balanced", confidence |-> R(4, 5),
         reasoning |-> Reasoning(<< Text("Test analysis"), Text("Test analysis") >>)],
        [strategy |-> "", confidence |-> R(3, 5), reasoning |-> NoReasoning] } }

ContextualSignals ==
  { [lexicalWeight |-> l, semanticWeight |-> RSub(One, l), confidence |-> c.confidence,
     reasoning |-> c.reasoning] :
    l \in WeightGrid, c \in
      { [confidence |-> R(7, 10), reasoning |-> Reasoning(<< Text("Test contextual") >>)],
        [confidence |-> R(3, 5), reasoning |-> Reasoning(<<>>)] } }

ProperNounResults ==
  { [hasProperNouns |-> FALSE, properNouns |-> <<>>, confidence |-> Zero],
    [hasProperNouns |-> TRUE, properNouns |-> << "Microsoft" >>, confidence |-> R(17, 20)] }

Enhancements ==
  { [queryStats |-> [wordCount |-> w], detectedRegion |-> r, properNouns |-> pn] :
    w \in 0..MaxWordCount, r \in {NoRegion, "GB"}, pn \in ProperNounResults }

\* Queries for the knowledge-phrase detection: phrases at the start, in the
\* middle, at the end, inside a longer word, in several casings, several
\* phrases at once, and queries without any phrase
KnowledgeQueries ==
  { Str("explain tls"), Str("Explain TLS"), Str("EXPLAIN TLS"), Str("please Explain"),
    Str("tls GUIDE"), Str("a Tutorial for tls"), Str("e-Learning"), Str("unlearned"),
    Str("How To cook"), Str("how  to cook"), Str("howto cook"), Str("what is TLS"),
    Str("WHAT IS tls"), Str("whatis tls"), Str("tls basics overview"),
    Str("how to understand machine learning basics"),
    Str("HOW TO UNDERSTAND MACHINE LEARNING BASICS"),
    Str("test query"), Str("Microsoft"), Str("lear n"), Str("GUID"), Str(" "),
    Str(""), Undefined, Null, NumberValue }

\* Bounds of what the NLP library reports for a query
MaxNlpEntities == 2
MaxNlpVerbs == 1
MaxNlpNouns == 1

NlpResults ==
  [entities : 0..MaxNlpEntities, verbs : 0..MaxNlpVerbs, nouns : 0..MaxNlpNouns]

\* The context record of the caller
NoContext == [userIntent |-> "", intent |-> "", domain |-> ""]

\* Bounds of the ContextualWeighter runs: concurrent calls, clock ticks
MaxContextualCalls == 2
MaxTicks == 2
\* One clock tick is half the cache TTL
TickMs == CacheTTL \div 2

ContextualCallIds == 1..MaxContextualCalls
Indices == { "docs", "logs" }

ContextualQueries ==
  { "login support download homepage", "similar things like this", "what is tls",
    "machine learning guide", "a b" }

\* Responses of client.search to the statistics request
StatsResponses ==
  { [kind |-> "ok", aggs |-> [avg |-> 1500, td |-> 90, total |-> 100]],
    [kind |-> "ok", aggs |-> [avg |-> 0, td |-> 1, total |-> 0]],
    [kind |-> "ok", aggs |-> [avg |-> 800, td |-> 50, total |-> 100]],
    [kind |-> "malformed", aggs |-> [avg |-> 0, td |-> 0, total |-> 0]],
    [kind |-> "reject", aggs |-> [avg |-> 0, td |-> 0, total |-> 0]] }

\* Responses of client.search to the top-terms request
OverlapResponses ==
  { [kind |-> "ok", buckets |-> << "Machine Learning Guide", "Login Support",
                                   "Download Homepage", "What is TLS" >>],
    [kind |-> "ok", buckets |-> << "Annual Report" >>],
    [kind |-> "noaggs", buckets |-> <<>>],
    [kind |-> "reject", buckets |-> <<>>] }

\* A call that was never made
NoContextualCall ==
  [ pc |-> "off", query |-> "", indexName |-> "docs", context |-> NoContext,
    corpusStats |-> DefaultCorpusStats, statsRequests |-> 0, overlapRequests |-> 0,
    statsResponse |-> "none", overlapResponse |-> "none",
    cached |-> NoCacheEntry,
    result |->
      [ lexicalWeight |-> Zero, semanticWeight |-> Zero, confidence |-> Zero, reasoning |-> <<>>,
        corpusStats |-> DefaultCorpusStats, queryCorpusOverlap |-> Zero,
        userIntent |-> "", intentConfidence |-> Zero, preLexical |-> Zero ] ]

EnhancerQueries ==
  { Undefined, Null, NumberValue, Str(""), Str(" "),
    Str("Microsoft"), Str("microsoft"), Str("Apple"), Str("test"), Str("API"), Str("UK"),
    Str("ABC123"), Str("AT&T"), Str(" Microsoft "),
    Str("Microsoft Teams"), Str("Microsoft Office 365"), Str("UK sales training materials"),
    Str("sales in britain"), Str("made in Germany"), Str("server policy IN the US"),
    Str("test query with multiple words"), Str("what is like Deutschland") }

\* What the compromise library makes of a query
NlpTypes == { "", "Organization", "Acronym" }

NoDecision ==
  [ decision |-> [lexicalWeight |-> Zero, semanticWeight |-> Zero, confidence |-> Zero,
                  strategy |-> "", reasoning |-> <<>>,
                  properNouns |-> [present |-> FALSE, list |-> <<>>]],
    locals |-> [path |-> "none", semanticBoost |-> Zero, isKnowledgeQuery |-> FALSE,
                baseLexical |-> Zero, preLexical |-> Zero, preSemantic |-> Zero] ]

\* ------------------------------------------------------------------------
\* Initial state and operations
\* ------------------------------------------------------------------------
\* A component that a specification does not exercise stays as constructed
\* DynamicSearchEngine.constructor: the options the model varies
DefaultEngineOptions ==
  [enableQueryEnhancement |-> TRUE, enableContextualWeighting |-> TRUE, cacheResults |-> FALSE]

\* Number of search / multisearch calls made on one engine
MaxSearches == 2

\* A call that is not made
NoSearchCall ==
  [pc |-> "off", method |-> "search", query |-> Undefined, userContext |-> NoContext,
   invoked |-> {}, strategy |-> "", cached |-> FALSE,
   finalWeights |-> [lexicalWeight |-> Zero, semanticWeight |-> Zero],
   templateVars |-> [lexical_weight |-> Zero, semantic_weight |-> Zero]]

WCOff ==
  /\ options = DefaultOptions
  /\ knowledgePatterns = DefaultKnowledgePatterns
  /\ wcArgs = [queryAnalysis |-> CHOOSE d \in FeatureDecisions : d.lexicalWeight = R(3, 5),
               contextualWeights |-> CHOOSE c \in ContextualSignals : c.lexicalWeight = R(3, 5),
               queryEnhancement |-> CHOOSE e \in Enhancements : e.queryStats.wordCount = 0,
               query |-> Undefined]
  /\ wcMem = [qa |-> wcArgs.queryAnalysis.reasoning.v, cw |-> wcArgs.contextualWeights.reasoning.v]
  /\ wcRet = NoDecision
  /\ wcCalls = MaxCalls

QAOff ==
  /\ qaOptions = DefaultAnalyzerOptions
  /\ qaIn = [query |-> Undefined, context |-> NoContext,
             nlp |-> [entities |-> 0, verbs |-> 0, nouns |-> 0]]
  /\ qaPc = "off"
  /\ qaSteps = <<>>
  /\ qaOut = NoAnalysisResult

CWOff ==
  /\ corpusCache = [i \in Indices |-> NoCacheEntry]
  /\ now = 0
  /\ cwCalls = [c \in ContextualCallIds |-> NoContextualCall]

QEOff ==
  /\ qeOptions = DefaultEnhancerOptions
  /\ qeIn = [query |-> Undefined, nlpType |-> ""]
  /\ qePc = "off"
  /\ qeSteps = <<>>
  /\ qeOut = GetEmptyEnhancement

\* The engine as its constructor leaves it, with no call to make
DSEOff ==
  /\ dseOptions = DefaultEngineOptions
  /\ dseStats = [totalSearches |-> 0, errorCount |-> 0, strategyCounts |-> [s \in {} |-> 0]]
  /\ resultCache = <<>>
  /\ activeSessions = {}
  /\ dseCalls = [c \in (1..MaxSearches) |-> NoSearchCall]

Init ==
  /\ QAOff /\ CWOff /\ QEOff /\ DSEOff
  /\ options = DefaultOptions
  /\ knowledgePatterns = DefaultKnowledgePatterns
  /\ wcArgs \in [queryAnalysis : FeatureDecisions, contextualWeights : ContextualSignals,
                 queryEnhancement : Enhancements, query :
       { Str("test query"), Str("how to understand machine learning basics"), Undefined }]
  /\ wcMem = [qa |-> wcArgs.queryAnalysis.reasoning.v, cw |-> wcArgs.contextualWeights.reasoning.v]
  /\ wcRet = NoDecision
  /\ wcCalls = 0

\* weightCombiner.combineWeights(queryAnalysis, contextualWeights, queryEnhancement, query),
\* called (again) on the same objects: the fields of wcArgs, with the
\* reasoning arrays as they are in memory now
WCCombineWeights ==
  /\ wcCalls < MaxCalls
  /\ LET r == CombineWeights(options, knowledgePatterns,
                             [wcArgs.queryAnalysis EXCEPT !.reasoning.v = wcMem.qa],
                             [wcArgs.contextualWeights EXCEPT !.reasoning.v = wcMem.cw],
                             wcArgs.queryEnhancement, wcArgs.query)
     IN  /\ wcRet' = [decision |-> r.decision, locals |-> r.locals]
         /\ wcMem' = [qa |-> r.mem.qa, cw |-> r.mem.cw]
  /\ wcCalls' = wcCalls + 1
  /\ UNCHANGED << options, knowledgePatterns, wcArgs >>
  /\ UNCHANGED << qaVars, cwVars, qeVars, dseVars >>

SpecWC == Init /\ [][WCCombineWeights]_vars

\* Knowledge-phrase detection on its own: one fused weight pair, every query
InitKQ ==
  /\ options = DefaultOptions
  /\ knowledgePatterns = DefaultKnowledgePatterns
  /\ wcArgs \in [queryAnalysis : { d \in FeatureDecisions : d.lexicalWeight = R(3, 5) },
                 contextualWeights : { c \in ContextualSignals : c.lexicalWeight = R(3, 5) },
                 queryEnhancement : { e \in Enhancements : ~e.properNouns.hasProperNouns },
                 query : KnowledgeQueries]
  /\ wcMem = [qa |-> wcArgs.queryAnalysis.reasoning.v, cw |-> wcArgs.contextualWeights.reasoning.v]
  /\ wcRet = NoDecision
  /\ wcCalls = 0
  /\ QAOff /\ CWOff /\ QEOff /\ DSEOff

SpecKQ == InitKQ /\ [][WCCombineWeights]_vars

\* QueryAnalyzer on its own: every query, context, NLP finding and option set
InitQA ==
  /\ WCOff /\ CWOff /\ QEOff /\ DSEOff
  /\ qaOptions \in { DefaultAnalyzerOptions,
                      [DefaultAnalyzerOptions EXCEPT !.entityThreshold = R(2, 1)] }
  /\ qaIn \in [query :
       { Undefined, Null, NumberValue, Str(""), Str(" "),
         Str("API"), Str("test query"), Str("find 'exact phrase' now"),
         Str("exactly this"), Str("explain similar idea"),
         Str("Microsoft Office 365"), Str("budget report 2024 draft"),
         Str("how to implement machine learning algorithms for customer segmentation"),
         Str("NASA 2024 IBM 2023 ESA 2022 CERN 2021") },
                context : [userIntent : {"", "factual", "exploratory"},
                           intent : {"", "factual", "exploratory"},
                           domain : {"", "technical"}],
                nlp : NlpResults]
  /\ qaPc = "ready"
  /\ qaSteps = <<>>
  /\ qaOut = NoAnalysisResult

\* queryAnalyzer.analyzeQuery(query, context)
QAAnalyzeQuery ==
  /\ qaPc = "ready"
  /\ LET r == AnalyzeQuery(qaOptions, qaIn.query, qaIn.context, qaIn.nlp)
     IN  /\ qaPc' = r.outcome
         /\ qaSteps' = r.steps
         /\ qaOut' = r.result
  /\ UNCHANGED << qaOptions, qaIn >>
  /\ UNCHANGED << wcVars, cwVars, qeVars, dseVars >>

SpecQA == InitQA /\ [][QAAnalyzeQuery]_vars

\* ContextualWeighter on its own: one call with every query, index and
\* context; the cache is empty or holds statistics fetched at time 0
InitCW ==
  /\ WCOff /\ QAOff /\ QEOff /\ DSEOff
  /\ \E e \in {NoCacheEntry} \cup
              { CacheEntry(StatsFromAggregations(r.aggs, 0), 0) :
                r \in { x \in StatsResponses : x.kind = "ok" } } :
       corpusCache = [i \in Indices |-> IF i = "docs" THEN e ELSE NoCacheEntry]
  /\ now = 0
  /\ \E q \in ContextualQueries, i \in Indices, ctx \in [userIntent : {""}, intent : {""}, domain : {"", "technical", "creative"}] :
       cwCalls = [c \in ContextualCallIds |->
                    IF c = 1 THEN [NoContextualCall EXCEPT !.pc = "ready", !.query = q,
                                                           !.indexName = i, !.context = ctx] ELSE NoContextualCall]

\* calculateContextualWeights after getCorpusStatistics has resolved with
\* stats: calculateQueryCorpusOverlap sends its request, or returns 0.5 at
\* once when the query has no term longer than two characters, and then the
\* signal is computed
AfterStatistics(call, stats) ==
  IF Len(QueryTerms(call.query)) = 0
  THEN [call EXCEPT !.pc = "done", !.corpusStats = stats,
                    !.result = ContextualSignal(call.query, call.context, stats, R(1, 2))]
  ELSE [call EXCEPT !.pc = "awaitOverlap", !.corpusStats = stats,
                    !.overlapRequests = @ + 1]

\* calculateContextualWeights up to the first await: getCorpusStatistics
\* reads the cache (the local `cached`, undefined when there is no entry)
\* and returns the cached data or sends the request
CWStart(c) ==
  /\ cwCalls[c].pc = "ready"
  /\ cwCalls' =
       [cwCalls EXCEPT ![c] =
          LET cached == corpusCache[cwCalls[c].indexName]
          IN  IF CacheHit(corpusCache, cwCalls[c].indexName, now)
              THEN AfterStatistics([cwCalls[c] EXCEPT !.statsResponse = "cached",
                                                      !.cached = cached],
                                   cached.data)
              ELSE [cwCalls[c] EXCEPT !.pc = "awaitStats", !.statsRequests = @ + 1,
                                      !.cached = cached]]
  /\ UNCHANGED << corpusCache, now >>
  /\ UNCHANGED << wcVars, qaVars, qeVars, dseVars >>

\* The statistics request settles: getCorpusStatistics stores and returns
\* the statistics, or returns the defaults when the request failed
CWStatsResponse(c) ==
  /\ cwCalls[c].pc = "awaitStats"
  /\ \E response \in StatsResponses :
       IF response.kind = "ok"
       THEN LET stats == StatsFromAggregations(response.aggs, now)
            IN  /\ corpusCache' = [corpusCache EXCEPT ![cwCalls[c].indexName] = CacheEntry(stats, now)]
                /\ cwCalls' = [cwCalls EXCEPT ![c] =
                     AfterStatistics([cwCalls[c] EXCEPT !.statsResponse = "ok"], stats)]
       ELSE /\ corpusCache' = corpusCache
            /\ cwCalls' = [cwCalls EXCEPT ![c] =
                 AfterStatistics([cwCalls[c] EXCEPT !.statsResponse = response.kind],
                                 DefaultCorpusStats)]
  /\ UNCHANGED now
  /\ UNCHANGED << wcVars, qaVars, qeVars, dseVars >>

\* The top-terms request settles: the overlap and then the signal are computed
CWOverlapResponse(c) ==
  /\ cwCalls[c].pc = "awaitOverlap"
  /\ \E response \in OverlapResponses :
       cwCalls' =
         [cwCalls EXCEPT ![c].pc = "done",
                         ![c].overlapResponse = response.kind,
                         ![c].result =
                           ContextualSignal(cwCalls[c].query, cwCalls[c].context,
                                            cwCalls[c].corpusStats,
                                            OverlapFromResponse(QueryTerms(cwCalls[c].query), response))]
  /\ UNCHANGED << corpusCache, now >>
  /\ UNCHANGED << wcVars, qaVars, qeVars, dseVars >>

\* Time passes
Tick ==
  /\ now < MaxTicks * TickMs
  /\ now' = now + TickMs
  /\ UNCHANGED << corpusCache, cwCalls >>
  /\ UNCHANGED << wcVars, qaVars, qeVars, dseVars >>

NextCW ==
  \/ \E c \in ContextualCallIds : CWStart(c)
  \/ \E c \in ContextualCallIds : CWStatsResponse(c)
  \/ \E c \in ContextualCallIds : CWOverlapResponse(c)
  \/ Tick
SpecCW == InitCW /\ [][NextCW]_vars

\* The two components that emit feature decisions and contextual signals
SpecFD == (InitQA \/ InitCW) /\ [][QAAnalyzeQuery \/ NextCW]_vars

\* QueryEnhancer on its own: every query, NLP finding and option set
InitQE ==
  /\ WCOff /\ QAOff /\ CWOff /\ DSEOff
  /\ qeOptions \in [enableRegionalDetection : BOOLEAN, enableProperNounDetection : BOOLEAN]
  /\ qeIn \in [query : EnhancerQueries, nlpType : NlpTypes]
  /\ qePc = "ready"
  /\ qeSteps = <<>>
  /\ qeOut = GetEmptyEnhancement

\* queryEnhancer.enhanceQuery(query)
QEEnhanceQuery ==
  /\ qePc = "ready"
  /\ LET r == EnhanceQuery(qeOptions, qeIn.query, qeIn.nlpType)
     IN  /\ qePc' = r.outcome
         /\ qeSteps' = r.steps
         /\ qeOut' = r.result
  /\ UNCHANGED << qeOptions, qeIn >>
  /\ UNCHANGED << wcVars, qaVars, cwVars, dseVars >>

SpecQE == InitQE /\ [][QEEnhanceQuery]_vars

\* ------------------------------------------------------------------------
\* Properties of WeightCombiner
\* ------------------------------------------------------------------------
Returned == wcCalls > 0
Decision == wcRet.decision
Locals == wcRet.locals
Enh == wcArgs.queryEnhancement
HasRegion == Enh.detectedRegion # NoRegion
WeightSum == RAdd(Decision.lexicalWeight, Decision.semanticWeight)

\* |x| <= 1e-9
WithinEps(x) == x.n = 0 \/ (Abs(x.n) <= 2 /\ Abs(x.n) * 1000000000 <= x.d)
InWeightBounds(opts, w) == RLe(opts.minWeight, w) /\ RLe(w, opts.maxWeight)

\* C1: under the default configuration the two weights of every decision of
\* combineWeights add up to 1.0 within 1e-9, on the override path, the
\* boosted path and the regional path.
C1_WeightsSumToOne ==
  (Returned /\ options = DefaultOptions) => WithinEps(RSub(WeightSum, One))

C1_Witness ==
  /\ Returned /\ options = DefaultOptions
  /\ Locals.path = "normal" /\ RLt(Zero, Locals.semanticBoost) /\ HasRegion
  /\ Decision.lexicalWeight = R(1, 10) /\ Decision.semanticWeight = R(9, 10)

\* C2: under the default bounds every decision that does not take the
\* proper-noun override path has both weights inside [minWeight, maxWeight].
C2_WeightsInBounds ==
  (Returned /\ options = DefaultOptions /\ Locals.path = "normal")
    => /\ InWeightBounds(options, Decision.lexicalWeight)
       /\ InWeightBounds(options, Decision.semanticWeight)

C2_Witness ==
  /\ Returned /\ options = DefaultOptions /\ Locals.path = "normal"
  /\ wcArgs.queryAnalysis.lexicalWeight = Zero /\ wcArgs.contextualWeights.lexicalWeight = Zero
  /\ Enh.queryStats.wordCount >= 4 /\ HasRegion
  /\ Decision.lexicalWeight = options.minWeight

\* C3: a query of at most two words with proper nouns always gets strategy
\* short_proper_noun_lexical, confidence >= 0.95 and the proper-noun list;
\* without a region its weights are exactly the configured pair.
C3_ProperNounOverride ==
  (Returned /\ Enh.queryStats.wordCount <= 2 /\ Enh.properNouns.hasProperNouns)
    => /\ Decision.strategy = "short_proper_noun_lexical"
       /\ RLe(R(95, 100), Decision.confidence)
       /\ Decision.properNouns = [present |-> TRUE, list |-> Enh.properNouns.properNouns]
       /\ ~HasRegion => /\ Decision.lexicalWeight = options.properNounLexicalWeight
                        /\ Decision.semanticWeight = options.properNounSemanticWeight
                        /\ (options = DefaultOptions =>
                              /\ Decision.lexicalWeight = R(3, 4)
                              /\ Decision.semanticWeight = R(1, 4))

C3_Witness ==
  /\ Returned /\ Enh.queryStats.wordCount = 2 /\ Enh.properNouns.hasProperNouns
  /\ ~HasRegion /\ wcArgs.queryAnalysis.strategy = "exact_match"
  /\ Decision.strategy = "short_proper_noun_lexical"
  /\ Decision.lexicalWeight = R(3, 4)

\* C4: combineWeights is pure: a call leaves the reasoning lists of its
\* inputs, the options and the knowledge-phrase list as they were, and a
\* further call with the same inputs returns an equal decision.
C4_CombineWeightsIsPure ==
  [][ wcCalls' = wcCalls + 1 =>
        /\ wcMem' = wcMem
        /\ wcMem' = [qa |-> wcArgs.queryAnalysis.reasoning.v,
                     cw |-> wcArgs.contextualWeights.reasoning.v]
        /\ wcArgs' = wcArgs
        /\ options' = options
        /\ knowledgePatterns' = knowledgePatterns
        /\ (wcCalls > 0 => wcRet'.decision = wcRet.decision) ]_vars

C4_Witness ==
  /\ wcCalls = 2
  /\ Len(wcMem.qa) = 2 /\ Len(wcMem.cw) = 1
  /\ Len(Decision.reasoning) = 5

ScenarioB ==
  /\ Returned /\ options = DefaultOptions
  /\ Locals.path = "normal" /\ Locals.baseLexical = R(3, 5)
  /\ Enh.queryStats.wordCount >= 4 /\ Locals.isKnowledgeQuery
  /\ ~HasRegion /\ ~Enh.properNouns.hasProperNouns

\* C6 as stated: in Scenario B the long-query boost 0.30 and the knowledge
\* boost 0.25 give lexicalWeight = 0.1 and semanticWeight = 0.9.
C6_AsStated ==
  ScenarioB => /\ Locals.semanticBoost = R(55, 100)
               /\ Decision.lexicalWeight = R(1, 10)
               /\ Decision.semanticWeight = R(9, 10)

\* C6 amended: in Scenario B the total boost is 0.55 and the decision is
\* lexicalWeight = 0.6 x (1 - 0.55) = 0.27, above minWeight and so not
\* clamped, and semanticWeight = 0.73.
C6_ScenarioB ==
  ScenarioB => /\ Locals.semanticBoost = R(55, 100)
               /\ Decision.lexicalWeight = R(27, 100)
               /\ Decision.semanticWeight = R(73, 100)

C6_Witness ==
  /\ ScenarioB
  /\ wcArgs.query = Str("how to understand machine learning basics")
  /\ Decision.lexicalWeight = R(27, 100)

\* String.prototype.toUpperCase, used to re-case a query
UpperOf == [c \in LowerSet |-> CharAt(UpperChars, CHOOSE i \in 1..26 : CharAt(LowerChars, i) = c)]
RECURSIVE ToUpperCase(_)
ToUpperCase(s) ==
  IF Len(s) = 0 THEN ""
  ELSE (IF CharAt(s, 1) \in LowerSet THEN UpperOf[CharAt(s, 1)] ELSE CharAt(s, 1))
       \o ToUpperCase(SubSeq(s, 2, Len(s)))

\* Re-casings of a query: all upper case, all lower case, first letter
\* upper case and the rest lower case (Capitalise), and every other query of the input
\* set that differs from it by case only
Capitalise(s) ==
  IF Len(s) = 0 THEN ""
  ELSE ToUpperCase(SubSeq(s, 1, 1)) \o ToLowerCase(SubSeq(s, 2, Len(s)))

Recasings(query) ==
  IF query.t # "string" THEN {query}
  ELSE { Str(ToUpperCase(query.v)), Str(ToLowerCase(query.v)), Str(Capitalise(query.v)) }
       \cup { q \in KnowledgeQueries : q.t = "string" /\ ToLowerCase(q.v) = ToLowerCase(query.v) }

\* Some stretch of the query, at any position, is a knowledge phrase up to case
ContainsPhrase(patterns, query) ==
  /\ query.t = "string"
  /\ \E k \in 1..Len(patterns) :
       \E i \in 0..(Len(query.v) - Len(patterns[k])) :
         ToLowerCase(SubSeq(query.v, i + 1, i + Len(patterns[k]))) = patterns[k]

\* C7: knowledge-phrase detection depends only on the lower-cased query (every
\* re-casing gets the same boost), a phrase is detected wherever it occurs,
\* also inside a longer word, and several phrases add knowledgeQueryBoost once.
C7_KnowledgeDetection ==
  (Returned /\ Locals.path = "normal")
    => /\ Locals.isKnowledgeQuery = ContainsPhrase(knowledgePatterns, wcArgs.query)
       /\ \A q \in Recasings(wcArgs.query) :
            DetectKnowledgeQuery(knowledgePatterns, q) = Locals.isKnowledgeQuery
       /\ Locals.semanticBoost =
            RAdd(LengthBoost(options, Enh.queryStats.wordCount),
                 IF Locals.isKnowledgeQuery THEN options.knowledgeQueryBoost ELSE Zero)

C7_Witness ==
  /\ Returned /\ Locals.path = "normal"
  /\ wcArgs.query = Str("HOW TO UNDERSTAND MACHINE LEARNING BASICS")
  /\ Enh.queryStats.wordCount = 4
  /\ Locals.isKnowledgeQuery
  /\ Locals.semanticBoost = R(55, 100)

\* ------------------------------------------------------------------------
\* Properties of QueryAnalyzer, ContextualWeighter and QueryEnhancer
\* ------------------------------------------------------------------------
\* Both weights in [0.1, 0.9] and adding up to 1.0
WellFormedWeights(d) ==
  /\ RLe(R(1, 10), d.lexicalWeight) /\ RLe(d.lexicalWeight, R(9, 10))
  /\ RLe(R(1, 10), d.semanticWeight) /\ RLe(d.semanticWeight, R(9, 10))
  /\ RAdd(d.lexicalWeight, d.semanticWeight) = One

\* C8: every decision of analyzeQuery and of calculateContextualWeights has
\* both weights in [0.1, 0.9] and adding up to 1.0, also when the lexical
\* weight before the clamp lies outside [0.1, 0.9].
C8_DecisionWeightsWellFormed ==
  /\ qaPc = "returned" => WellFormedWeights(qaOut)
  /\ \A c \in ContextualCallIds : cwCalls[c].pc = "done" => WellFormedWeights(cwCalls[c].result)

C8_Witness ==
  \E c \in ContextualCallIds :
    /\ cwCalls[c].pc = "done"
    /\ RLt(cwCalls[c].result.preLexical, Zero)
    /\ cwCalls[c].result.lexicalWeight = R(1, 10)
    /\ cwCalls[c].result.semanticWeight = R(9, 10)

\* C9: analyzeQuery fails when the query is empty, missing or not a string,
\* before any analysis step has run.
C9_AnalyzerRejectsInvalidQuery ==
  (qaPc # "ready" /\ qaPc # "off" /\ qaIn.query \in {Str(""), Undefined, Null, NumberValue})
    => /\ qaPc = "threw"
       /\ qaSteps = <<>>
       /\ qaOut = NoAnalysisResult

C9_Witness ==
  /\ qaPc = "threw" /\ qaIn.query = Str("") /\ qaSteps = <<>>

C12_AsStated ==
  /\ \A c \in ContextualCallIds :
       cwCalls[c].pc = "done" =>
         /\ cwCalls[c].statsResponse \in {"malformed", "reject"} =>
              /\ cwCalls[c].result.corpusStats = DefaultCorpusStats
              /\ cwCalls[c].result.corpusStats.avgDocLength = R(500, 1)
              /\ cwCalls[c].result.corpusStats.termDiversity = Num(R(1, 2))
              /\ cwCalls[c].result.corpusStats.totalDocs = 1000
         /\ cwCalls[c].overlapResponse \in {"noaggs", "reject"} =>
              cwCalls[c].result.queryCorpusOverlap = R(1, 2)
  /\ \A i \in Indices : corpusCache[i].present => corpusCache[i].data # DefaultCorpusStats

\* C13: a call sends no statistics request when the cache holds an entry of
\* its index younger than cacheTTL at the moment it reads the cache, and
\* exactly one otherwise; it sends at most one overlap request, and only after
\* the statistics are there (from the cache or from the settled request); no
\* request is sent again after a failure.
C13_RequestDiscipline ==
  /\ [](\A c \in ContextualCallIds :
          /\ cwCalls[c].statsRequests <= 1
          /\ cwCalls[c].overlapRequests <= 1
          /\ cwCalls[c].pc \in {"off", "ready", "awaitStats"} => cwCalls[c].overlapRequests = 0
          /\ cwCalls[c].overlapRequests = 1 => cwCalls[c].statsResponse # "none"
          /\ cwCalls[c].pc = "awaitStats" =>
                cwCalls[c].statsRequests = 1 /\ cwCalls[c].statsResponse = "none")
  /\ [][\A c \in ContextualCallIds :
          /\ (cwCalls[c].pc = "ready" /\ cwCalls'[c].pc # "ready") =>
                cwCalls'[c].statsRequests =
                  IF /\ corpusCache[cwCalls[c].indexName].present
                     /\ now - corpusCache[cwCalls[c].indexName].timestamp < CacheTTL
                  THEN 0 ELSE 1
          /\ cwCalls[c].pc # "ready" =>
                cwCalls'[c].statsRequests = cwCalls[c].statsRequests
          /\ cwCalls[c].pc \in {"awaitOverlap", "done"} =>
                cwCalls'[c].overlapRequests = cwCalls[c].overlapRequests]_vars

\* C13 witness: a call served from the cache has finished after no statistics
\* request and one overlap request that was rejected
C13_Witness ==
  \E c \in ContextualCallIds :
    /\ cwCalls[c].pc = "done"
    /\ cwCalls[c].statsResponse = "cached"
    /\ cwCalls[c].statsRequests = 0
    /\ cwCalls[c].overlapRequests = 1
    /\ cwCalls[c].overlapResponse = "reject"

\* The decision combineWeights takes when it is handed the enhancement that
\* enhanceQuery returned, as DynamicSearchEngine.search does (lines 121-126)
ComposedDecisions ==
  { CombineWeights(DefaultOptions, DefaultKnowledgePatterns, qa, cw, qeOut, qeIn.query).decision :
      qa \in FeatureDecisions, cw \in ContextualSignals }

C15_AsStated ==
  (/\ qePc = "returned"
   /\ qeOptions.enableProperNounDetection
   /\ qeIn.query.t = "string"
   /\ Len(SplitWords(qeIn.query.v)) >= 2
   /\ MatchesWholeWord(qeIn.query.v, "Microsoft")) =>
    /\ qeOut.properNouns.hasProperNouns
    /\ \E k \in 1..Len(qeOut.properNouns.properNouns) :
         qeOut.properNouns.properNouns[k] = "Microsoft"

\* C16: for a query that holds 'UK' as a whole upper-case word and no surface
\* form of another region, enhanceQuery reports detectedRegion = 'UK'.
C16_AsStated ==
  (/\ qePc = "returned"
   /\ qeOptions.enableRegionalDetection
   /\ qeIn.query.t = "string"
   /\ MatchesWholeWord(qeIn.query.v, "UK")
   /\ \A k \in 1..Len(RegionPatterns) :
        RegionPatterns[k].region # "GB" =>
          \A j \in 1..Len(RegionPatterns[k].patterns) :
            ~RegionPatternMatches(qeIn.query.v, RegionPatterns[k].patterns[j])) =>
    qeOut.detectedRegion = "UK"

\* C17: in every result of enhanceQuery, under every option setting,
\* shouldAutoDisableRerank is true exactly when queryStats.wordCount = 1 and
\* properNouns.hasProperNouns is true in that same result.
C17_AsStated ==
  qePc = "returned" =>
    (qeOut.shouldAutoDisableRerank <=>
       (qeOut.queryStats.wordCount = 1 /\ qeOut.properNouns.hasProperNouns))

\* C18: when the context record carries intent = 'factual' (resp.
\* 'exploratory') in its field `intent`, the lexical weight before the clamp
\* is 0.1 higher (resp. 0.15 lower) than for the same query without intent;
\* domain = 'technical' adds 0.05.
C18_AsStated ==
  (qaPc = "returned" /\ qaIn.context.userIntent = "") =>
    LET withoutIntent ==
          AnalyzeQuery(qaOptions, qaIn.query, [qaIn.context EXCEPT !.intent = ""],
                       qaIn.nlp).result.preLexical
        withoutDomain ==
          AnalyzeQuery(qaOptions, qaIn.query, [qaIn.context EXCEPT !.domain = ""],
                       qaIn.nlp).result.preLexical
    IN  /\ qaIn.context.intent = "factual" =>
              qaOut.preLexical = RAdd(withoutIntent, R(1, 10))
        /\ qaIn.context.intent = "exploratory" =>
              qaOut.preLexical = RSub(withoutIntent, R(15, 100))
        /\ qaIn.context.domain = "technical" =>
              qaOut.preLexical = RAdd(withoutDomain, R(5, 100))

\* C19: inferUserIntent returns the label with the highest indicator score
\* among factual, exploratory and navigational, and 'exploratory' when no
\* indicator matches or the highest score is tied; the lexical adjustment
\* applied afterwards is the one of that label (exploratory: -0.2).
C19_AsStated ==
  \A c \in ContextualCallIds :
    cwCalls[c].pc = "done" =>
      LET scores == InferUserIntent(cwCalls[c].query).scores
          labels == { "factual", "exploratory", "navigational" }
          best == { l \in labels : \A m \in labels : RLe(scores[m], scores[l]) }
          expected == IF Cardinality(best) = 1 THEN CHOOSE l \in best : TRUE
                      ELSE "exploratory"
          reasoning == cwCalls[c].result.reasoning
      IN  /\ cwCalls[c].result.userIntent = expected
          /\ expected = "exploratory" =>
                \E k \in 1..Len(reasoning) :
                  reasoning[k] = Text("Exploratory queries benefit from semantic breadth")

\* The analysis was made without context adjustments
NoContextAdjustments ==
  qaIn.context.userIntent \notin {"factual", "exploratory"} /\ qaIn.context.domain # "technical"

\* C20 as stated: a decision classified 'descriptive' (no context
\* adjustments) has lexicalWeight at most 0.4 + 0.3 x entityThreshold, and
\* hence a semanticWeight strictly greater than that of every
\* 'entity_focused' decision (0.25), whose lexicalWeight exceeds its
\* semanticWeight.
C20_AsStated ==
  (qaPc = "returned" /\ NoContextAdjustments) =>
    /\ qaOut.strategy = "entity_focused" =>
          /\ qaOut.semanticWeight = R(1, 4)
          /\ RLt(qaOut.semanticWeight, qaOut.lexicalWeight)
    /\ qaOut.strategy = "descriptive" =>
          /\ RLe(qaOut.lexicalWeight,
                 RAdd(R(2, 5), RMul(R(3, 10), qaOptions.entityThreshold)))
          /\ RLt(R(1, 4), qaOut.semanticWeight)

\* C20: a decision classified 'descriptive' (no context adjustments) has
\* lexicalWeight at most 0.4 + 0.3 x entityThreshold; when entityThreshold is
\* below 7/6 (the default 0.3 is), its semanticWeight is strictly greater
\* than that of every 'entity_focused' decision (0.25), whose lexicalWeight
\* exceeds its semanticWeight.
C20_DescriptiveBound ==
  (qaPc = "returned" /\ NoContextAdjustments) =>
    /\ qaOut.strategy = "entity_focused" =>
          /\ qaOut.semanticWeight = R(1, 4)
          /\ RLt(qaOut.semanticWeight, qaOut.lexicalWeight)
    /\ qaOut.strategy = "descriptive" =>
          /\ RLe(qaOut.lexicalWeight,
                 RAdd(R(2, 5), RMul(R(3, 10), qaOptions.entityThreshold)))
          /\ RLt(qaOptions.entityThreshold, R(7, 6)) => RLt(R(1, 4), qaOut.semanticWeight)

\* C20 witness: under the default options a query of at least eight words
\* with some entities has been classified 'descriptive'
C20_Witness ==
  /\ qaPc = "returned"
  /\ NoContextAdjustments
  /\ qaOptions = DefaultAnalyzerOptions
  /\ qaOut.strategy = "descriptive"
  /\ RLt(R(2, 5), qaOut.lexicalWeight)

\* ------------------------------------------------------------------------
\* DynamicSearchEngine (src/lib/dynamic-search-engine.js)
\* ------------------------------------------------------------------------

\* A validation that lacks the test of the trimmed length
IsInvalidSearchQuery_NoTrim(query) == IsInvalidQuery(query)

\* search, line 72, and multisearch, line 229:
\* !query || typeof query !== 'string' || query.trim().length === 0
IsInvalidSearchQuery(query) == IsInvalidQuery(query) \/ Len(Trim(query.v)) = 0

\* _getCacheKey on the trimmed query (useRerank is left undefined)
CacheKey(call) ==
  << Trim(call.query.v), call.userContext.domain, call.userContext.intent >>

\* options.cacheTTL, and the sizes at which _cleanupCache starts (search,
\* line 187) and stops (_cleanupCache, lines 708 and 713)
EngineCacheTTL == 300000
MaxCacheSize == 1000
CleanupTarget == 800

\* The result cache is the sequence of its entries in insertion order, the
\* order of Map.entries(). An entry is [key, timestamp, count]: count is 1
\* for the result of a search, and an entry with a larger count stands for
\* that many consecutive entries of other keys stored at the same time.
\* resultCache.size
RECURSIVE CacheSize(_)
CacheSize(cache) ==
  IF Len(cache) = 0 THEN 0 ELSE Head(cache).count + CacheSize(Tail(cache))

\* Map.delete of the entries marked with count 0
RECURSIVE Compact(_)
Compact(cache) ==
  IF Len(cache) = 0 THEN <<>>
  ELSE (IF Head(cache).count = 0 THEN <<>> ELSE << Head(cache) >>) \o Compact(Tail(cache))

\* Mutant of the second step of _cleanupCache: the newest entries go
RemoveOldest_Newest(cache, k) ==
  LET after(i) ==
        CacheSize([j \in DOMAIN cache |->
                     IF \/ cache[j].timestamp > cache[i].timestamp
                        \/ (cache[j].timestamp = cache[i].timestamp /\ j > i)
                     THEN cache[j] ELSE [cache[j] EXCEPT !.count = 0]])
      removed(i) == Max2(0, IF k - after(i) < cache[i].count THEN k - after(i)
                            ELSE cache[i].count)
  IN  Compact([i \in DOMAIN cache |-> [cache[i] EXCEPT !.count = @ - removed(i)]])

\* _cleanupCache, lines 707-714: the entries are sorted by timestamp (a
\* stable sort: entries of equal timestamp stay in Map order) and the first
\* k of them are deleted
RemoveOldest(cache, k) ==
  LET before(i) ==
        CacheSize([j \in DOMAIN cache |->
                     IF \/ cache[j].timestamp < cache[i].timestamp
                        \/ (cache[j].timestamp = cache[i].timestamp /\ j < i)
                     THEN cache[j] ELSE [cache[j] EXCEPT !.count = 0]])
      removed(i) == Max2(0, IF k - before(i) < cache[i].count THEN k - before(i)
                            ELSE cache[i].count)
  IN  Compact([i \in DOMAIN cache |-> [cache[i] EXCEPT !.count = @ - removed(i)]])

\* _cleanupCache: the expired entries are deleted, and if more than 800 are
\* left the oldest are deleted until 800 are left
CleanupCache(cache, time) ==
  LET fresh == Compact([i \in DOMAIN cache |->
                          IF time - cache[i].timestamp > EngineCacheTTL
                          THEN [cache[i] EXCEPT !.count = 0] ELSE cache[i]])
  IN  IF CacheSize(fresh) > CleanupTarget
      THEN RemoveOldest(fresh, CacheSize(fresh) - CleanupTarget)
      ELSE fresh

\* Phases 1, 2 and 4 of search and multisearch on the trimmed query:
\* analyzeQuery, enhanceQuery or _getDefaultEnhancement, and combineWeights
\* with the contextual weights that phase 3 gave
FinalWeights(call, contextualWeights) ==
  LET cleanQuery == Str(Trim(call.query.v))
      queryAnalysis ==
        AnalyzeQuery(DefaultAnalyzerOptions, cleanQuery, call.userContext,
                     [entities |-> 0, verbs |-> 0, nouns |-> 0]).result
      queryEnhancement ==
        IF dseOptions.enableQueryEnhancement
        THEN EnhanceQuery(DefaultEnhancerOptions, cleanQuery, "").result
        ELSE [ originalQuery |-> cleanQuery.v, detectedRegion |-> NoRegion,
               properNouns |-> NoProperNouns, queryStats |-> GetQueryStats(cleanQuery.v) ]
  IN  CombineWeights(DefaultOptions, DefaultKnowledgePatterns,
                     [queryAnalysis EXCEPT !.reasoning = Reasoning(@)],
                     [contextualWeights EXCEPT !.reasoning = Reasoning(@)],
                     queryEnhancement, cleanQuery).decision

\* The catch block of search and multisearch: the error is counted and the
\* call rejects
Catch(c, invoked) ==
  /\ dseStats' = [dseStats EXCEPT !.errorCount = @ + 1]
  /\ dseCalls' = [dseCalls EXCEPT ![c].pc = "rejected", ![c].invoked = invoked]

\* QueryBuilder.buildHybridQuery (src/lib/query-builder.js), lines 23-24 and
\* 34-39: the values it substitutes for {{lexical_weight}} and
\* {{semantic_weight}}
BuildHybridQuery(weights) ==
  [ lexical_weight |-> RMul(weights.lexicalWeight, R(10, 1)),
    semantic_weight |-> RMul(weights.semanticWeight, R(10, 1)) ]

\* Phases 4 to 6 up to the await of the client: combineWeights, then
\* buildHybridQuery (search) or the template lookup and the substitution of
\* templateVars (multisearch, lines 294-314), which throw when a template is
\* missing, then the request is sent
AfterContextual(c, invoked, contextualWeights) ==
  \E templateFound \in BOOLEAN, finalWeights \in { FinalWeights(dseCalls[c], contextualWeights) } :
    LET builder == IF dseCalls[c].method = "search" THEN {"builder"} ELSE {}
    IN  IF templateFound
        THEN /\ dseCalls' =
                  [dseCalls EXCEPT
                     ![c].pc = "awaitClient",
                     ![c].invoked = invoked \cup {"combiner", "client"} \cup builder,
                     ![c].strategy = finalWeights.strategy,
                     ![c].finalWeights = [lexicalWeight |-> finalWeights.lexicalWeight,
                                          semanticWeight |-> finalWeights.semanticWeight],
                     ![c].templateVars =
                        IF dseCalls[c].method = "search"
                        THEN BuildHybridQuery(finalWeights)
                        ELSE [lexical_weight |-> finalWeights.lexicalWeight,
                              semantic_weight |-> finalWeights.semanticWeight]]
             /\ UNCHANGED dseStats
        ELSE Catch(c, invoked \cup {"combiner"} \cup builder)

\* Phases 1 to 3 up to the first await: the analyzer and the enhancer run,
\* and calculateContextualWeights is awaited, or its default is taken
StartPipeline(c) ==
  LET invoked == {"analyzer"} \cup
                 (IF dseOptions.enableQueryEnhancement THEN {"enhancer"} ELSE {})
  IN  IF dseOptions.enableContextualWeighting
      THEN /\ dseCalls' = [dseCalls EXCEPT ![c].pc = "awaitContextual",
                                            ![c].invoked = invoked \cup {"contextual"}]
           /\ UNCHANGED dseStats
      ELSE AfterContextual(c, invoked,
             [lexicalWeight |-> R(1, 2), semanticWeight |-> R(1, 2), confidence |-> R(3, 5),
              reasoning |-> << Text("Default balanced weights - contextual analysis disabled") >>])

\* search(query, userContext) up to its first await, return or throw: the
\* monitor session starts, the query is validated, the result cache is
\* looked up (an entry older than cacheTTL is deleted), the pipeline starts
DSESearch(c) ==
  /\ dseCalls[c].pc = "ready"
  /\ dseCalls[c].method = "search"
  /\ IF IsInvalidSearchQuery(dseCalls[c].query)
     THEN /\ activeSessions' = activeSessions \cup {c}
          /\ Catch(c, {})
          /\ UNCHANGED resultCache
     ELSE LET cached == { i \in DOMAIN resultCache : resultCache[i].key = CacheKey(dseCalls[c]) }
              hit == dseOptions.cacheResults /\ cached # {}
          IN  IF hit /\ \A i \in cached : now - resultCache[i].timestamp < EngineCacheTTL
              THEN /\ activeSessions' = activeSessions \ {c}
                   /\ dseCalls' = [dseCalls EXCEPT ![c].pc = "resolved", ![c].cached = TRUE]
                   /\ UNCHANGED << dseStats, resultCache >>
              ELSE /\ activeSessions' = activeSessions \cup {c}
                   /\ resultCache' =
                        IF hit
                        THEN Compact([i \in DOMAIN resultCache |->
                                        IF i \in cached THEN [resultCache[i] EXCEPT !.count = 0]
                                        ELSE resultCache[i]])
                        ELSE resultCache
                   /\ StartPipeline(c)
  /\ UNCHANGED dseOptions
  /\ UNCHANGED << wcVars, qaVars, cwVars, qeVars >>

\* multisearch(query, userContext) up to its first await or throw; it does
\* not use the result cache
DSEMultisearch(c) ==
  /\ dseCalls[c].pc = "ready"
  /\ dseCalls[c].method = "multisearch"
  /\ activeSessions' = activeSessions \cup {c}
  /\ IF IsInvalidSearchQuery(dseCalls[c].query) THEN Catch(c, {}) ELSE StartPipeline(c)
  /\ UNCHANGED << dseOptions, resultCache >>
  /\ UNCHANGED << wcVars, qaVars, cwVars, qeVars >>

\* calculateContextualWeights resolves (it never rejects) and the call runs
\* on to the await of the client
DSEContextualResolved(c) ==
  /\ dseCalls[c].pc = "awaitContextual"
  /\ \E overlap \in { Zero, R(1, 2) } :
       AfterContextual(c, dseCalls[c].invoked,
                       ContextualSignal(Trim(dseCalls[c].query.v), dseCalls[c].userContext,
                                        DefaultCorpusStats, overlap))
  /\ UNCHANGED << dseOptions, resultCache, activeSessions >>
  /\ UNCHANGED << wcVars, qaVars, cwVars, qeVars >>

\* esClient.search / esClient.msearch settles: the results are processed,
\* the monitor session completes, _updateStats counts the search and its
\* strategy and search stores the result (an entry of a key that is in the
\* cache is overwritten where it is, a new key is added at the end) and
\* calls _cleanupCache when the cache has more than 1000 entries; a
\* rejection goes to the catch block
DSEClientResponse(c) ==
  /\ dseCalls[c].pc = "awaitClient"
  /\ \E ok \in BOOLEAN :
       IF ok
       THEN LET strategy == dseCalls[c].strategy
                counts == dseStats.strategyCounts
            IN  /\ activeSessions' = activeSessions \ {c}
                /\ dseStats' =
                     [dseStats EXCEPT
                        !.totalSearches = @ + 1,
                        !.strategyCounts =
                          [s \in DOMAIN counts \cup {strategy} |->
                             (IF s \in DOMAIN counts THEN counts[s] ELSE 0)
                             + (IF s = strategy THEN 1 ELSE 0)]]
                /\ resultCache' =
                     IF dseCalls[c].method = "search" /\ dseOptions.cacheResults
                     THEN LET cacheKey == CacheKey(dseCalls[c])
                              stored ==
                                IF \E i \in DOMAIN resultCache : resultCache[i].key = cacheKey
                                THEN [i \in DOMAIN resultCache |->
                                        IF resultCache[i].key = cacheKey
                                        THEN [resultCache[i] EXCEPT !.timestamp = now]
                                        ELSE resultCache[i]]
                                ELSE Append(resultCache, [key |-> cacheKey, timestamp |-> now,
                                                          count |-> 1])
                          IN  IF CacheSize(stored) > MaxCacheSize
                              THEN CleanupCache(stored, now) ELSE stored
                     ELSE resultCache
                /\ dseCalls' = [dseCalls EXCEPT ![c].pc = "resolved"]
       ELSE /\ Catch(c, dseCalls[c].invoked)
            /\ UNCHANGED << resultCache, activeSessions >>
  /\ UNCHANGED dseOptions
  /\ UNCHANGED << wcVars, qaVars, cwVars, qeVars >>

\* An engine with one of three option settings and MaxSearches calls to make;
\* its result cache is empty or holds a result for 'API' stored cacheTTL ago
InitDSE ==
  /\ WCOff /\ QAOff /\ CWOff /\ QEOff
  /\ dseOptions \in { DefaultEngineOptions,
                       [DefaultEngineOptions EXCEPT !.cacheResults = TRUE,
                                                    !.enableQueryEnhancement = FALSE],
                       [DefaultEngineOptions EXCEPT !.cacheResults = TRUE,
                                                    !.enableContextualWeighting = FALSE] }
  /\ dseStats = [totalSearches |-> 0, errorCount |-> 0, strategyCounts |-> [s \in {} |-> 0]]
  /\ resultCache \in { <<>>,
                        << [key |-> << "API", "", "" >>, timestamp |-> 0 - EngineCacheTTL,
                            count |-> 1] >> }
  /\ activeSessions = {}
  /\ dseCalls \in [(1..MaxSearches) -> { [NoSearchCall EXCEPT !.pc = "ready", !.method = m, !.query = q] :
                                    m \in {"search", "multisearch"},
                                    q \in { Undefined, NumberValue, Str(""), Str("  "),
                                            Str("API"), Str(" what is tls ") } }]

NextDSE ==
  \/ \E c \in (1..MaxSearches) : DSESearch(c)
  \/ \E c \in (1..MaxSearches) : DSEMultisearch(c)
  \/ \E c \in (1..MaxSearches) : DSEContextualResolved(c)
  \/ \E c \in (1..MaxSearches) : DSEClientResponse(c)

SpecDSE == InitDSE /\ [][NextDSE]_vars

\* The query is empty, whitespace-only or not a string
EmptyOrNotString(query) ==
  query.t # "string" \/ AllChars(query.v, SpaceSet)

\* C11: in search and multisearch, for an empty, whitespace-only or
\* non-string query no component is invoked (analyzer, enhancer, contextual
\* scorer, WeightCombiner, query builder, client); the call rejects,
\* errorCount grows by exactly one, and totalSearches, strategyCounts and
\* the result cache stay as they are.
C11_InvalidQueryRejected ==
  /\ [](\A c \in (1..MaxSearches) :
          EmptyOrNotString(dseCalls[c].query) =>
            /\ dseCalls[c].pc \in {"off", "ready", "rejected"}
            /\ dseCalls[c].invoked = {})
  /\ [][\A c \in (1..MaxSearches) :
          (/\ EmptyOrNotString(dseCalls[c].query)
           /\ dseCalls[c].pc = "ready"
           /\ dseCalls'[c].pc # "ready") =>
            /\ dseCalls'[c].pc = "rejected"
            /\ dseCalls'[c].invoked = {}
            /\ dseStats'.errorCount = dseStats.errorCount + 1
            /\ dseStats'.totalSearches = dseStats.totalSearches
            /\ dseStats'.strategyCounts = dseStats.strategyCounts
            /\ resultCache' = resultCache]_vars

\* C11 witness: a multisearch call with a whitespace-only query has been
\* rejected on an engine that has completed a search and cached its result
C11_Witness ==
  \E c \in (1..MaxSearches) :
    /\ dseCalls[c].method = "multisearch"
    /\ dseCalls[c].query = Str("  ")
    /\ dseCalls[c].pc = "rejected"
    /\ dseStats.errorCount = 1
    /\ dseStats.totalSearches = 1
    /\ resultCache # <<>>

\* The strategy conditions of _calculateWeights in their fixed order, with
\* the label and the base lexical weight of each, for the call that was made
StrategyTable ==
  LET analysis == PerformAnalysis(qaIn.query.v, qaIn.nlp)
  IN  << [holds |-> analysis.quotedPhrases > 0 \/ RLt(R(1, 10), analysis.exactMatchRatio),
          label |-> "exact_match", lexical |-> R(4, 5)],
         [holds |-> RLt(qaOptions.entityThreshold, analysis.entityRatio),
          label |-> "entity_focused", lexical |-> R(3, 4)],
         [holds |-> RLt(qaOptions.conceptualThreshold, analysis.conceptualRatio),
          label |-> "conceptual", lexical |-> R(3, 10)],
         [holds |-> analysis.wordCount <= 2,
          label |-> "short_query", lexical |-> R(13, 20)],
         [holds |-> analysis.wordCount >= 8,
          label |-> "descriptive",
          lexical |-> RAdd(R(2, 5), RMul(R(3, 10), analysis.entityRatio))],
         [holds |-> TRUE, label |-> "balanced", lexical |-> R(1, 2)] >>

\* C22: the strategy is selected by first-match precedence in the order
\* exact_match, entity_focused, conceptual, short_query, descriptive,
\* balanced: the decision has the label, and without context adjustments the
\* base lexical weight, of the earliest condition that holds.
C22_FirstMatchPrecedence ==
  qaPc = "returned" =>
    LET first == CHOOSE k \in 1..Len(StrategyTable) :
                   /\ StrategyTable[k].holds
                   /\ \A j \in 1..(k - 1) : ~StrategyTable[j].holds
    IN  /\ qaOut.strategy = StrategyTable[first].label
        /\ NoContextAdjustments => qaOut.preLexical = StrategyTable[first].lexical

\* C22 witness: a query with a quoted phrase whose entity ratio is above the
\* threshold and which has at most two words was classified exact_match
C22_Witness ==
  /\ qaPc = "returned"
  /\ NoContextAdjustments
  /\ StrategyTable[1].holds /\ StrategyTable[2].holds /\ StrategyTable[4].holds
  /\ qaOut.strategy = "exact_match"
  /\ qaOut.preLexical = R(4, 5)

\* The reference computation of C23 for the arguments of the call: the fused
\* and clamped lexical weight, the total boost, and the resulting pair
Reference ==
  LET L == RMax(R(1, 10), RMin(R(9, 10),
             RAdd(RMul(R(2, 5), wcArgs.queryAnalysis.lexicalWeight),
                  RMul(R(3, 5), wcArgs.contextualWeights.lexicalWeight))))
      wordCount == Enh.queryStats.wordCount
      b == RAdd(IF wordCount >= 4 THEN R(30, 100)
                ELSE IF wordCount \in {2, 3} THEN R(20, 100) ELSE Zero,
                IF DetectKnowledgeQuery(knowledgePatterns, wcArgs.query)
                THEN R(25, 100) ELSE Zero)
      lexical == IF b = Zero THEN L ELSE RMax(R(1, 10), RMul(L, RSub(One, b)))
  IN  [L |-> L, b |-> b, lexical |-> lexical, semantic |-> RSub(One, lexical)]

\* C23: on the non-override path with no region and the default
\* configuration the decision equals the reference computation (fusion
\* 0.4 / 0.6 clamped to [0.1, 0.9], length boost plus knowledge boost,
\* lexical = max(0.1, L x (1 - b)), semantic = 1 - lexical), and the boost
\* never raises the lexical weight.
C23_ReferenceComputation ==
  (/\ Returned
   /\ ~(Enh.queryStats.wordCount <= 2 /\ Enh.properNouns.hasProperNouns)
   /\ ~HasRegion) =>
    /\ Decision.lexicalWeight = Reference.lexical
    /\ Decision.semanticWeight = Reference.semantic
    /\ RLe(Decision.lexicalWeight, Reference.L)

\* C23 witness: a long knowledge query with fused weight 0.2 was boosted by
\* 0.55 and the lexical weight was held at the lower bound 0.1
C23_Witness ==
  /\ Returned
  /\ ~Enh.properNouns.hasProperNouns
  /\ ~HasRegion
  /\ Reference.L = R(1, 5)
  /\ Reference.b = R(55, 100)
  /\ Decision.lexicalWeight = R(1, 10)
  /\ Decision.semanticWeight = R(9, 10)

\* C24: the strategy of a decision is 'short_proper_noun_lexical' exactly
\* when wordCount <= 2 and proper nouns are detected; otherwise
\* 'regional_semantic_enhanced' exactly when a region is detected; otherwise
\* the feature strategy, or 'balanced_hybrid' when that is missing; with a
\* feature strategy from the six feature labels it is one of the nine
\* enumerated values.
C24_StrategySelection ==
  Returned =>
    LET short == Enh.queryStats.wordCount <= 2 /\ Enh.properNouns.hasProperNouns
        feature == wcArgs.queryAnalysis.strategy
        featureLabels == { "exact_match", "entity_focused", "conceptual", "short_query",
                           "descriptive", "balanced" }
    IN  /\ (Decision.strategy = "short_proper_noun_lexical") <=> short
        /\ ~short => ((Decision.strategy = "regional_semantic_enhanced") <=> HasRegion)
        /\ (~short /\ ~HasRegion) =>
             Decision.strategy = IF feature = "" THEN "balanced_hybrid" ELSE feature
        /\ feature \in featureLabels \cup {""} =>
             Decision.strategy \in featureLabels \cup
               { "short_proper_noun_lexical", "regional_semantic_enhanced", "balanced_hybrid" }

\* C24 witness: a decision without proper nouns and region whose feature
\* decision carries no strategy got 'balanced_hybrid'
C24_Witness ==
  /\ Returned
  /\ ~Enh.properNouns.hasProperNouns
  /\ ~HasRegion
  /\ wcArgs.queryAnalysis.strategy = ""
  /\ Decision.strategy = "balanced_hybrid"

\* The kinds of the entries that the steps of combineWeights add after the
\* component reasoning, in the order of C25
StepEntries ==
  LET wordCount == Enh.queryStats.wordCount
  IN  IF wordCount <= 2 /\ Enh.properNouns.hasProperNouns
      THEN << "Short query with proper nouns detected" >>
           \o (IF HasRegion THEN << "Regional query detected" >> ELSE <<>>)
      ELSE (IF wordCount >= 4 THEN << "Long query" >>
            ELSE IF wordCount >= 2 THEN << "Medium query" >> ELSE <<>>)
           \o (IF DetectKnowledgeQuery(knowledgePatterns, wcArgs.query)
               THEN << "Knowledge-seeking query detected" >> ELSE <<>>)
           \o (IF HasRegion THEN << "Regional query detected" >> ELSE <<>>)

\* C25: the reasoning list of a decision is the feature decision's
\* reasoning, then the contextual signal's reasoning, then one entry per
\* step that fired, in the order of the steps; the input entries keep their
\* order and their duplicates.
C25_ReasoningOrder ==
  Returned =>
    LET feature == IF wcArgs.queryAnalysis.reasoning.def
                   THEN wcArgs.queryAnalysis.reasoning.v ELSE <<>>
        contextual == IF wcArgs.contextualWeights.reasoning.def
                      THEN wcArgs.contextualWeights.reasoning.v ELSE <<>>
        inputs == feature \o contextual
        reasoning == Decision.reasoning
    IN  /\ Len(reasoning) = Len(inputs) + Len(StepEntries)
        /\ SubSeq(reasoning, 1, Len(inputs)) = inputs
        /\ \A k \in 1..Len(StepEntries) : reasoning[Len(inputs) + k].k = StepEntries[k]

\* C25 witness: the decision of a long regional knowledge query lists the
\* feature entry twice (it came twice), then the contextual entry, then the
\* three step entries
C25_Witness ==
  /\ Returned
  /\ Len(wcArgs.queryAnalysis.reasoning.v) = 2
  /\ wcArgs.queryAnalysis.reasoning.v[1] = wcArgs.queryAnalysis.reasoning.v[2]
  /\ Len(wcArgs.contextualWeights.reasoning.v) = 1
  /\ Len(StepEntries) = 3
  /\ Len(Decision.reasoning) = 6
  /\ Decision.reasoning[1] = Decision.reasoning[2]
  /\ Decision.reasoning[6].k = "Regional query detected"

\* ------------------------------------------------------------------------
\* WeightCombiner under other configurations
\* ------------------------------------------------------------------------
\* new WeightCombiner(options): the defaults, or the README's custom
\* weightCombiner block { knowledgeSearchBias: 0.15, regionalBias: 0.12,
\* longQueryBoost: 0.30, properNounLexicalWeight: 0.9 } spread over them
\* (knowledgeSearchBias is a key that combineWeights never reads)
InitWO ==
  /\ QAOff /\ CWOff /\ QEOff /\ DSEOff
  /\ options \in { DefaultOptions,
                   [regionalBias |-> R(3, 25), longQueryBoost |-> R(3, 10),
                    properNounLexicalWeight |-> R(9, 10)] @@ DefaultOptions }
  /\ knowledgePatterns = DefaultKnowledgePatterns
  /\ wcArgs \in [queryAnalysis : { d \in FeatureDecisions : d.lexicalWeight = R(3, 5) },
                 contextualWeights : { c \in ContextualSignals : c.lexicalWeight = R(3, 5) },
                 queryEnhancement : Enhancements,
                 query : { Str("test query"), Undefined }]
  /\ wcMem = [qa |-> wcArgs.queryAnalysis.reasoning.v, cw |-> wcArgs.contextualWeights.reasoning.v]
  /\ wcRet = NoDecision
  /\ wcCalls = 0

\* updateOptions(newOptions): this.options = { ...this.options, ...newOptions }
WCUpdateOptions ==
  /\ \E newOptions \in { [properNounLexicalWeight |-> R(9, 10)],
                         [properNounLexicalWeight |-> R(3, 4)],
                         [properNounLexicalWeight |-> R(4, 5), properNounSemanticWeight |-> R(1, 5)],
                         [regionalBias |-> R(1, 5)] } :
       options' = newOptions @@ options
  /\ UNCHANGED << knowledgePatterns, wcArgs, wcMem, wcRet, wcCalls >>
  /\ UNCHANGED << qaVars, cwVars, qeVars, dseVars >>

SpecWO == InitWO /\ [][WCCombineWeights \/ WCUpdateOptions]_vars

\* C28: under every configuration reachable through constructor options or
\* updateOptions the two weights of every decision of combineWeights add up
\* to 1.0; in particular a proper-noun override decision without a region
\* does when properNounLexicalWeight alone is set to 0.9.
C28_SumToOneEveryConfiguration ==
  Returned => WithinEps(RSub(WeightSum, One))

\* C30: activeSessions only ever holds the sessions of searches still in
\* flight: a session that search() or multisearch() registered with
\* startSearch is gone once that call has settled, whether it resolved from
\* the pipeline, resolved from the result cache or rejected.
C30_SessionsOnlyInFlight ==
  \A c \in activeSessions : dseCalls[c].pc \in { "awaitContextual", "awaitClient" }

\* C21: in every query body sent to Elasticsearch the values substituted for
\* {{lexical_weight}} and {{semantic_weight}} are ten times the weights of
\* the decision and add up to 10, in search() and in multisearch() alike.
C21_TemplateWeightsOnTenScale ==
  \A c \in 1..MaxSearches :
    "client" \in dseCalls[c].invoked =>
      /\ dseCalls[c].templateVars.lexical_weight
           = RMul(dseCalls[c].finalWeights.lexicalWeight, R(10, 1))
      /\ dseCalls[c].templateVars.semantic_weight
           = RMul(dseCalls[c].finalWeights.semanticWeight, R(10, 1))
      /\ RAdd(dseCalls[c].templateVars.lexical_weight,
              dseCalls[c].templateVars.semantic_weight) = R(10, 1)

\* C26 as stated: when getCorpusStatistics has read an entry whose age is at
\* least cacheTTL, then as that read completes the entry of the index is a
\* new one with a fresh timestamp, which later reads are served within the
\* TTL, and the data of the old entry is what it was.
C26_AsStated ==
  [][\A c \in ContextualCallIds :
       (/\ cwCalls[c].pc = "awaitStats" /\ cwCalls'[c].pc # "awaitStats"
        /\ cwCalls[c].cached.present)
       => /\ corpusCache'[cwCalls[c].indexName] # cwCalls[c].cached
          /\ corpusCache'[cwCalls[c].indexName].timestamp = now'
          /\ CacheHit(corpusCache', cwCalls[c].indexName, now')
          /\ cwCalls'[c].cached = cwCalls[c].cached]_vars

\* C26, amended: an entry whose age is at least cacheTTL is never served;
\* when the statistics request of that read succeeds, the entry of the index
\* is a new one with a fresh timestamp that holds the fetched statistics and
\* is served within the TTL; when the request fails, the read returns the
\* default statistics and the stale entry stays in the cache. In both cases
\* the data of the old entry is what it was.
C26_StaleEntryReplacedOnSuccess ==
  [][\A c \in ContextualCallIds :
       /\ (/\ cwCalls[c].pc = "ready" /\ cwCalls'[c].pc # "ready"
           /\ corpusCache[cwCalls[c].indexName].present
           /\ now - corpusCache[cwCalls[c].indexName].timestamp >= CacheTTL)
          => /\ cwCalls'[c].pc = "awaitStats"
             /\ cwCalls'[c].cached = corpusCache[cwCalls[c].indexName]
             /\ corpusCache' = corpusCache
       /\ (/\ cwCalls[c].pc = "awaitStats" /\ cwCalls'[c].pc # "awaitStats"
           /\ cwCalls[c].cached.present)
          => /\ cwCalls'[c].cached = cwCalls[c].cached
             /\ IF cwCalls'[c].statsResponse = "ok"
                THEN /\ corpusCache'[cwCalls[c].indexName] # cwCalls[c].cached
                     /\ corpusCache'[cwCalls[c].indexName].timestamp = now'
                     /\ corpusCache'[cwCalls[c].indexName].data = cwCalls'[c].corpusStats
                     /\ CacheHit(corpusCache', cwCalls[c].indexName, now')
                ELSE /\ corpusCache' = corpusCache
                     /\ cwCalls'[c].corpusStats = DefaultCorpusStats]_vars

\* A read of a stale entry has completed with fetched statistics and the
\* cache holds the new entry in place of the one that was read
C26_Witness ==
  \E c \in ContextualCallIds :
    /\ cwCalls[c].cached.present
    /\ cwCalls[c].statsResponse = "ok"
    /\ now - cwCalls[c].cached.timestamp >= CacheTTL
    /\ corpusCache[cwCalls[c].indexName].timestamp = now
    /\ corpusCache[cwCalls[c].indexName].data # cwCalls[c].cached.data

\* ------------------------------------------------------------------------
\* Concurrent calls of calculateContextualWeights
\* ------------------------------------------------------------------------
\* Two calls are made on one ContextualWeighter with an empty cache, on the
\* same index or on different ones; their steps interleave at the awaits
InitCC ==
  /\ WCOff /\ QAOff /\ QEOff /\ DSEOff
  /\ corpusCache = [i \in Indices |-> NoCacheEntry]
  /\ now = 0
  /\ cwCalls \in [ContextualCallIds ->
                    { [NoContextualCall EXCEPT !.pc = "ready", !.query = q, !.indexName = i] :
                      q \in { "what is tls", "a b" }, i \in Indices } \cup {NoContextualCall}]
  /\ \A c \in ContextualCallIds : cwCalls[c].pc = "ready" <=> c <= 2

SpecCC == InitCC /\ [][NextCW]_vars

\* C27: however concurrent calculateContextualWeights calls interleave at
\* their awaits, the corpus cache holds an entry for an index exactly when a
\* statistics request for that index has succeeded, the entry holds the
\* statistics that such a request returned, and when every successful
\* request for the index returned the same statistics the entry holds them
\* (what calls made one after the other would have stored); and every call
\* resolves: it has no rejecting outcome, it sends each of its two requests
\* at most once, and each of its steps takes it forward, from the cache
\* lookup to the statistics request, the top-terms request and the result.
C27_ConcurrentCallsSafe ==
  /\ [](\A i \in Indices :
          LET fetched == { c \in ContextualCallIds :
                             cwCalls[c].indexName = i /\ cwCalls[c].statsResponse = "ok" }
          IN  /\ corpusCache[i].present <=> fetched # {}
              /\ corpusCache[i].present =>
                   \E c \in fetched : corpusCache[i].data = cwCalls[c].corpusStats
              /\ (\A c, d \in fetched :
                    [cwCalls[c].corpusStats EXCEPT !.timestamp = 0]
                      = [cwCalls[d].corpusStats EXCEPT !.timestamp = 0])
                 => \A c \in fetched :
                      [corpusCache[i].data EXCEPT !.timestamp = 0]
                        = [cwCalls[c].corpusStats EXCEPT !.timestamp = 0])
  /\ [](\A c \in ContextualCallIds :
          /\ cwCalls[c].pc \in { "off", "ready", "awaitStats", "awaitOverlap", "done" }
          /\ cwCalls[c].statsRequests <= 1 /\ cwCalls[c].overlapRequests <= 1)
  /\ [][\A c \in ContextualCallIds :
          cwCalls'[c] # cwCalls[c] =>
            << cwCalls[c].pc, cwCalls'[c].pc >> \in
              { << "ready", "awaitStats" >>, << "ready", "awaitOverlap" >>, << "ready", "done" >>,
                << "awaitStats", "awaitOverlap" >>, << "awaitStats", "done" >>,
                << "awaitOverlap", "done" >> }]_vars

\* Two calls on the same index both missed the empty cache, both fetched the
\* same statistics at different times and both have resolved
C27_Witness ==
  /\ cwCalls[1].indexName = cwCalls[2].indexName
  /\ cwCalls[1].pc = "done" /\ cwCalls[2].pc = "done"
  /\ cwCalls[1].statsResponse = "ok" /\ cwCalls[2].statsResponse = "ok"
  /\ ~cwCalls[1].cached.present /\ ~cwCalls[2].cached.present
  /\ cwCalls[1].corpusStats.timestamp < cwCalls[2].corpusStats.timestamp
  /\ corpusCache[cwCalls[1].indexName].data = cwCalls[2].corpusStats
  /\ [cwCalls[1].corpusStats EXCEPT !.timestamp = 0]
       = [cwCalls[2].corpusStats EXCEPT !.timestamp = 0]

\* ------------------------------------------------------------------------
\* DynamicSearchEngine with result caching on a cache at its size limit
\* ------------------------------------------------------------------------
\* cacheResults is on and the cache holds what earlier searches left in it:
\* results stored now, cacheTTL ago and twice cacheTTL ago, up to the 1000
\* entries that a completed search leaves at most
InitRC ==
  /\ WCOff /\ QAOff /\ CWOff /\ QEOff
  /\ dseOptions = [DefaultEngineOptions EXCEPT !.cacheResults = TRUE]
  /\ dseStats = [totalSearches |-> 0, errorCount |-> 0, strategyCounts |-> [s \in {} |-> 0]]
  /\ \E old, aged, recent \in { 0, 1, MaxCacheSize - CleanupTarget, CleanupTarget - 1,
                                MaxCacheSize - 1, MaxCacheSize } :
       /\ old + aged + recent \in { MaxCacheSize - 1, MaxCacheSize }
       /\ resultCache =
            Compact(<< [key |-> << "API", "", "" >>, timestamp |-> 0 - 2 * EngineCacheTTL,
                        count |-> IF old = 1 THEN 1 ELSE 0],
                       [key |-> << "old", "", "" >>, timestamp |-> 0 - 2 * EngineCacheTTL,
                        count |-> IF old = 1 THEN 0 ELSE old],
                       [key |-> << "aged", "", "" >>, timestamp |-> 0 - EngineCacheTTL,
                        count |-> aged],
                       [key |-> << "what is tls", "", "" >>, timestamp |-> 0,
                        count |-> IF recent = 1 THEN 1 ELSE 0],
                       [key |-> << "recent", "", "" >>, timestamp |-> 0,
                        count |-> IF recent = 1 THEN 0 ELSE recent] >>)
  /\ activeSessions = {}
  /\ dseCalls \in [(1..MaxSearches) ->
                     { [NoSearchCall EXCEPT !.pc = "ready", !.method = "search", !.query = q] :
                       q \in { Str("API"), Str(" what is tls ") } }
                     \cup { [NoSearchCall EXCEPT !.pc = "ready", !.method = "multisearch",
                                                 !.query = Str("API")] }]

SpecRC == InitRC /\ [][NextDSE]_vars

\* The number of entries of the cache stored at time t under keys other than key
OthersAt(cache, key, t) ==
  CacheSize([j \in DOMAIN cache |->
               IF cache[j].timestamp = t /\ cache[j].key # key
               THEN cache[j] ELSE [cache[j] EXCEPT !.count = 0]])

\* C29: with cacheResults on, the result cache never holds more than 1000
\* entries once a search has completed; a search that stores its result
\* leaves it in the cache with the current timestamp; when storing brings
\* the size above 1000, the cleanup leaves no expired entry and at most 800
\* entries, deletes an unexpired entry only to come down to 800 and only
\* when no older entry is left; otherwise nothing else changes in the cache.
C29_CacheBounded ==
  /\ [](CacheSize(resultCache) <= MaxCacheSize)
  /\ [][\A c \in 1..MaxSearches :
          (/\ dseCalls[c].pc = "awaitClient" /\ dseCalls'[c].pc = "resolved"
           /\ dseCalls[c].method = "search" /\ dseOptions.cacheResults)
          => LET key == CacheKey(dseCalls[c])
                 isNew == \A i \in DOMAIN resultCache : resultCache[i].key # key
                 times == { resultCache[i].timestamp : i \in DOMAIN resultCache }
             IN  /\ \E i \in DOMAIN resultCache' :
                      /\ resultCache'[i].key = key
                      /\ resultCache'[i].timestamp = now
                      /\ resultCache'[i].count = 1
                 /\ IF CacheSize(resultCache) + (IF isNew THEN 1 ELSE 0) > MaxCacheSize
                    THEN /\ CacheSize(resultCache') <= CleanupTarget
                         /\ \A i \in DOMAIN resultCache' :
                              now - resultCache'[i].timestamp <= EngineCacheTTL
                         /\ \A t \in times :
                              (/\ now - t <= EngineCacheTTL
                               /\ OthersAt(resultCache', key, t) < OthersAt(resultCache, key, t))
                              => /\ CacheSize(resultCache') = CleanupTarget
                                 /\ \A i \in DOMAIN resultCache' :
                                      resultCache'[i].timestamp >= t
                    ELSE \A t \in times :
                           OthersAt(resultCache', key, t) = OthersAt(resultCache, key, t)]_vars

\* A search has stored its result as the 1001st entry and the cleanup has
\* deleted the oldest unexpired entries: 800 entries are left, the new one
\* among them
C29_Witness ==
  \E c \in 1..MaxSearches :
    /\ dseCalls[c].pc = "resolved" /\ ~dseCalls[c].cached
    /\ dseCalls[c].method = "search"
    /\ CacheSize(resultCache) = CleanupTarget
    /\ \E i \in DOMAIN resultCache :
         resultCache[i].key = CacheKey(dseCalls[c]) /\ resultCache[i].timestamp = now
    /\ \E i \in DOMAIN resultCache : resultCache[i].timestamp = 0 - EngineCacheTTL
====
